---- MODULE Spec2Model ----
(***************************************************************************)
(* Overseer: tool discovery (utils.py), the preparation of an analysis run *)
(* and the Procmon launcher (analysis.py), the report generator            *)
(* (report.py) and the window (gui.py).                                    *)
(*                                                                         *)
(* Paths are strings.  The file system is the set of paths that are        *)
(* regular files (files) and the set of paths that are directories (dirs). *)
(* Path strings are compared as written: no case folding and no            *)
(* normalisation of "./x" against "x".  Path.home() is taken to succeed.   *)
(***************************************************************************)
EXTENDS Integers, Sequences, FiniteSets, TLC

VARIABLES
    system,     \* platform.system()
    pathEnv,    \* os.environ PATH: [set |-> BOOLEAN, value |-> STRING]
    files,      \* paths that are regular files
    dirs,       \* paths that are directories
    denied,     \* directories in which no entry may be created
    ftCall,     \* last find_tool call: its arguments and its outcome
    saCall,     \* last start_analysis_from_config call: config and outcome
    saPrev,     \* the start_analysis_from_config call before the last one
    procs,      \* processes started so far: [cmdline, started, state]
    now,        \* seconds elapsed on the wall clock
    generator,  \* the ReportGenerator constructed, if any: [some, report_dir]
    rpCall,     \* last report call: its arguments and its outcome
    artifacts,  \* report files written so far, in order: [path, content]
    ui,         \* widgets of the OverseerGUI window
    cfgFile,    \* the configuration file the window reads and writes
    guiEv       \* last event the window handled

reportVars == <<generator, rpCall, artifacts>>
guiVars == <<ui, cfgFile, guiEv>>

vars == <<system, pathEnv, files, dirs, denied, ftCall, saCall, saPrev, procs, now,
          reportVars, guiVars>>

(***************************************************************************)
(* Bounds of the model.                                                    *)
(***************************************************************************)
\* Largest number of regular files in a file-system snapshot.
MaxFiles == 2
\* Largest number of entries of a static_tools or dynamic_tools mapping.
MaxTools == 2
\* Largest number of start_analysis_from_config calls in one behaviour.
MaxRuns == 2
\* Largest number of launch_procmon calls in one behaviour.
MaxProcs == 1
\* Seconds of wall-clock time a behaviour covers.
MaxTime == 3

(***************************************************************************)
(* String helpers (Python str methods used by the code).                   *)
(***************************************************************************)
Char(s, i) == SubSeq(s, i, i)

UpperLetters == "ABCDEFGHIJKLMNOPQRSTUVWXYZ"
LowerLetters == "abcdefghijklmnopqrstuvwxyz"

\* The lower-case letter of every upper-case letter.
LowerOf ==
    [c \in {Char(UpperLetters, i) : i \in 1..Len(UpperLetters)} |->
        Char(LowerLetters, CHOOSE j \in 1..Len(UpperLetters) : Char(UpperLetters, j) = c)]

\* str.lower() of one character.
LowerChar(c) == IF c \in DOMAIN LowerOf THEN LowerOf[c] ELSE c

\* str.lower()
RECURSIVE Lower(_)
Lower(s) == IF Len(s) = 0 THEN "" ELSE LowerChar(Char(s, 1)) \o Lower(SubSeq(s, 2, Len(s)))

\* str.split(sep) for a one-character separator: "" splits to <<"">>.
RECURSIVE SplitFrom(_, _, _, _)
SplitFrom(s, sep, i, cur) ==
    IF i > Len(s) THEN <<cur>>
    ELSE IF Char(s, i) = sep THEN <<cur>> \o SplitFrom(s, sep, i + 1, "")
    ELSE SplitFrom(s, sep, i + 1, cur \o Char(s, i))

Split(s, sep) == SplitFrom(s, sep, 1, "")

\* str.strip(ch): leading and trailing occurrences of ch removed.
RECURSIVE LStrip(_, _)
LStrip(s, ch) ==
    IF Len(s) > 0 /\ Char(s, 1) = ch THEN LStrip(SubSeq(s, 2, Len(s)), ch) ELSE s

RECURSIVE RStrip(_, _)
RStrip(s, ch) ==
    IF Len(s) > 0 /\ Char(s, Len(s)) = ch THEN RStrip(SubSeq(s, 1, Len(s) - 1), ch) ELSE s

Strip(s, ch) == RStrip(LStrip(s, ch), ch)

(***************************************************************************)
(* Platform.                                                               *)
(***************************************************************************)
Systems == {"Windows", "Darwin", "Linux", "FreeBSD"}

\* os.pathsep
PathSep(sys) == IF sys = "Windows" THEN ";" ELSE ":"

\* os.sep
Sep(sys) == IF sys = "Windows" THEN "\\" ELSE "/"

\* os.path.join(a, b) for a relative b.
Join(sys, a, b) ==
    IF Len(a) = 0 THEN b
    ELSE IF Char(a, Len(a)) = Sep(sys) \/ Char(a, Len(a)) = "/"
              \/ (sys = "Windows" /\ Char(a, Len(a)) = ":")
         THEN a \o b
    ELSE a \o Sep(sys) \o b

\* os.path.isabs
IsAbs(sys, p) ==
    IF sys = "Windows"
    THEN \/ Len(p) >= 1 /\ Char(p, 1) \in {"\\", "/"}
         \/ Len(p) >= 3 /\ Char(p, 2) = ":" /\ Char(p, 3) \in {"\\", "/"}
    ELSE Len(p) >= 1 /\ Char(p, 1) = "/"

\* Path.home()
Home(sys) ==
    CASE sys = "Windows" -> "C:\\Users\\analyst"
      [] sys = "Darwin"  -> "/Users/analyst"
      [] OTHER           -> "/home/analyst"

\* script_cwd: the directory of utils.py
ScriptCwd(sys) == IF sys = "Windows" THEN "C:\\Overseer" ELSE "/opt/overseer"

(***************************************************************************)
(* Optional[str]                                                           *)
(***************************************************************************)
None == [some |-> FALSE, s |-> ""]
Some(s) == [some |-> TRUE, s |-> s]

\* Python truthiness of an Optional[str]: None and "" are false.
Truthy(o) == o.some /\ Len(o.s) > 0

\* file_exists(path)
file_exists(fs, o) == o.some /\ o.s \in fs

(***************************************************************************)
(* get_default_tool_locations(): tool key -> ordered candidate paths.      *)
(***************************************************************************)
\* The keys of the table; every key is present on every platform.
DefaultToolKeys ==
    {"capa", "yara", "exiftool", "die", "floss", "resourcehacker", "binwalk",
     "fakenet", "procdump", "procmon", "ttd"}

\* str(home / "Desktop" / "Tools" / d / f)
HomeTool(sys, d, f) ==
    Join(sys, Join(sys, Join(sys, Join(sys, Home(sys), "Desktop"), "Tools"), d), f)

WindowsLocations(key) ==
    CASE key = "capa" ->
           <<"C:\\Program Files\\capa\\capa.exe", "C:\\Tools\\capa\\capa.exe",
             HomeTool("Windows", "capa", "capa.exe")>>
      [] key = "yara" ->
           <<"C:\\Program Files\\yara\\yara64.exe", "C:\\Tools\\yara\\yara64.exe",
             HomeTool("Windows", "yara", "yara64.exe")>>
      [] key = "exiftool" ->
           <<"C:\\Program Files\\exiftool\\exiftool.exe", "C:\\Tools\\exiftool\\exiftool.exe",
             HomeTool("Windows", "exiftool", "exiftool.exe")>>
      [] key = "die" ->
           <<"C:\\Program Files\\DIE\\die.exe", "C:\\Tools\\DIE\\die.exe",
             HomeTool("Windows", "DIE", "die.exe"),
             HomeTool("Windows", "Detect-it-Easy", "die.exe")>>
      [] key = "floss" ->
           <<"C:\\Program Files\\floss\\floss.exe", "C:\\Tools\\floss\\floss.exe",
             HomeTool("Windows", "floss", "floss.exe")>>
      [] key = "resourcehacker" ->
           <<"C:\\Program Files\\Resource Hacker\\ResourceHacker.exe",
             "C:\\Tools\\ResourceHacker\\ResourceHacker.exe",
             HomeTool("Windows", "ResourceHacker", "ResourceHacker.exe")>>
      [] key = "binwalk" ->
           <<"C:\\Program Files\\binwalk\\binwalk.exe", "C:\\Tools\\binwalk\\binwalk.exe",
             HomeTool("Windows", "binwalk", "binwalk.exe")>>
      [] key = "fakenet" ->
           <<"C:\\Program Files\\FakeNet-NG\\fakenet.exe", "C:\\Tools\\FakeNet-NG\\fakenet.exe",
             HomeTool("Windows", "FakeNet-NG", "fakenet.exe")>>
      [] key = "procdump" ->
           <<"C:\\Program Files\\SysinternalsSuite\\procdump.exe",
             "C:\\Tools\\SysinternalsSuite\\procdump.exe",
             "C:\\Tools\\procdump\\procdump.exe",
             HomeTool("Windows", "SysinternalsSuite", "procdump.exe")>>
      [] key = "procmon" ->
           <<"C:\\Program Files\\SysinternalsSuite\\Procmon.exe",
             "C:\\Tools\\SysinternalsSuite\\Procmon.exe",
             "C:\\Tools\\Procmon\\Procmon.exe",
             HomeTool("Windows", "SysinternalsSuite", "Procmon.exe")>>
      [] key = "ttd" ->
           <<"C:\\Program Files\\Windows Kits\\10\\Debuggers\\x64\\TTD\\TTD.exe",
             "C:\\Tools\\TTD\\TTD.exe",
             HomeTool("Windows", "TTD", "TTD.exe")>>
      [] OTHER -> <<>>

DarwinLocations(key) ==
    IF key \in {"capa", "yara", "exiftool", "binwalk"}
    THEN <<"/usr/local/bin/" \o key, "/opt/homebrew/bin/" \o key, HomeTool("Darwin", key, key)>>
    ELSE <<>>

LinuxLocations(key) ==
    IF key \in {"capa", "yara", "exiftool", "binwalk"}
    THEN <<"/usr/local/bin/" \o key, "/usr/bin/" \o key, HomeTool("Linux", key, key)>>
    ELSE <<>>

\* locations[key] of the table built for platform sys, for a key of the table.
DefaultLocations(sys, key) ==
    CASE sys = "Windows" -> WindowsLocations(key)
      [] sys = "Darwin"  -> DarwinLocations(key)
      [] sys = "Linux"   -> LinuxLocations(key)
      [] OTHER           -> <<>>

(***************************************************************************)
(* find_tool(tool_name, custom_path)                                       *)
(***************************************************************************)
\* Outcomes of a call.
RetPath(p) == [kind |-> "path", path |-> p]
RetNone == [kind |-> "none", path |-> ""]
Raise(e) == [kind |-> "raise", path |-> e]

\* Fault variant of Extensions: the suffixes tried in the other order.
ExtensionsSwapped(sys) == IF sys = "Windows" THEN <<".bat", ".exe">> ELSE <<".sh", "">>

\* extensions = [".exe", ".bat"] if system == "Windows" else ["", ".sh"]
Extensions(sys) == IF sys = "Windows" THEN <<".exe", ".bat">> ELSE <<"", ".sh">>

\* os.environ.get('PATH', '').split(os.pathsep)
PathEntries(sys, env) == Split(IF env.set THEN env.value ELSE "", PathSep(sys))

\* for ext in extensions: ... if file_exists(join(dir, tool_name + ext)): return
RECURSIVE ExtLoop(_, _, _, _, _)
ExtLoop(sys, fs, dir, tool_name, j) ==
    IF j > Len(Extensions(sys)) THEN None
    ELSE LET tool_path == Join(sys, dir, tool_name \o Extensions(sys)[j])
         IN  IF file_exists(fs, Some(tool_path)) THEN Some(tool_path)
             ELSE ExtLoop(sys, fs, dir, tool_name, j + 1)

\* for path in PATH entries: for ext in extensions: ...
RECURSIVE PathLoop(_, _, _, _, _)
PathLoop(sys, fs, entries, tool_name, i) ==
    IF i > Len(entries) THEN None
    ELSE LET hit == ExtLoop(sys, fs, Strip(entries[i], "\""), tool_name, 1)
         IN  IF hit.some THEN hit ELSE PathLoop(sys, fs, entries, tool_name, i + 1)

\* for location in default_locations[key]: if file_exists(location): return
RECURSIVE LocationLoop(_, _, _)
LocationLoop(fs, locations, i) ==
    IF i > Len(locations) THEN None
    ELSE IF file_exists(fs, Some(locations[i])) THEN Some(locations[i])
    ELSE LocationLoop(fs, locations, i + 1)

\* Fault variant of DefaultSearch: the table is indexed without the "in" test.
DefaultSearchUnguarded(sys, fs, tool_name) ==
    IF Lower(tool_name) \in DefaultToolKeys
    THEN LET hit == LocationLoop(fs, DefaultLocations(sys, Lower(tool_name)), 1)
         IN  IF hit.some THEN RetPath(hit.s) ELSE RetNone
    ELSE Raise("KeyError")

\* if tool_name_lower in default_locations: for location in ...
DefaultSearch(sys, fs, tool_name) ==
    IF Lower(tool_name) \in DefaultToolKeys
    THEN LET hit == LocationLoop(fs, DefaultLocations(sys, Lower(tool_name)), 1)
         IN  IF hit.some THEN RetPath(hit.s) ELSE RetNone
    ELSE RetNone

Continue == [kind |-> "continue", path |-> ""]

\* Fault variant of CustomStage: the custom path is never looked at.
CustomStageSkipped(sys, fs, custom_path) == Continue

\* Fault variant of CustomStage: a custom path that is missing ends the search.
CustomStageStrict(sys, fs, custom_path) ==
    IF Truthy(custom_path) /\ file_exists(fs, custom_path) THEN RetPath(custom_path.s)
    ELSE IF Truthy(custom_path) THEN RetNone
    ELSE Continue

\* if custom_path and file_exists(custom_path): return custom_path
\* if custom_path and os.path.isabs(custom_path):
\*     if file_exists(custom_path): return custom_path
CustomStage(sys, fs, custom_path) ==
    IF Truthy(custom_path) /\ file_exists(fs, custom_path) THEN RetPath(custom_path.s)
    ELSE IF Truthy(custom_path) /\ IsAbs(sys, custom_path.s)
            /\ file_exists(fs, custom_path) THEN RetPath(custom_path.s)
    ELSE Continue

find_tool(sys, env, fs, tool_name, custom_path) ==
    LET custom == CustomStage(sys, fs, custom_path)
    IN  IF custom.kind # "continue" THEN custom
        ELSE LET inPath == PathLoop(sys, fs, PathEntries(sys, env), tool_name, 1)
             IN  IF inPath.some THEN RetPath(inPath.s)
                 ELSE LET inDefault == DefaultSearch(sys, fs, tool_name)
                      IN  IF inDefault.kind # "none" THEN inDefault
                          ELSE LET local == ExtLoop(sys, fs, ScriptCwd(sys), tool_name, 1)
                               IN  IF local.some THEN RetPath(local.s) ELSE RetNone

(***************************************************************************)
(* Inputs of the tool-discovery specification.                             *)
(***************************************************************************)
\* Tool names asked for: a key of the table, a name whose lower case is a
\* key, and a name the table does not know.
ToolNames == {"capa", "Procmon", "mytool"}

SeqRange(q) == {q[i] : i \in 1..Len(q)}

\* Values of PATH: unset, two directories, a quoted entry.
PathEnvChoices(sys) ==
    IF sys = "Windows"
    THEN {[set |-> FALSE, value |-> ""],
          [set |-> TRUE, value |-> "C:\\Tools\\capa;C:\\bin"],
          [set |-> TRUE, value |-> "\"C:\\bin\""]}
    ELSE {[set |-> FALSE, value |-> ""],
          [set |-> TRUE, value |-> "/opt/bin:/usr/local/bin"],
          [set |-> TRUE, value |-> "\"/usr/bin\""]}

\* Custom paths: none, empty, absolute, relative, and one that is also a
\* candidate of the PATH search.
CustomChoices(sys) ==
    IF sys = "Windows"
    THEN {None, Some(""), Some("D:\\custom\\capa.exe"), Some("tools\\capa.exe"),
          Some("C:\\bin\\capa.bat")}
    ELSE {None, Some(""), Some("/custom/capa"), Some("tools/capa"),
          Some("/usr/local/bin/capa.sh")}

\* Every path some call of the model looks at.
Universe(sys, env) ==
    {Join(sys, Strip(e, "\""), t \o x) :
        e \in SeqRange(PathEntries(sys, env)), t \in ToolNames, x \in SeqRange(Extensions(sys))}
    \cup UNION {SeqRange(DefaultLocations(sys, k)) : k \in {Lower(t) : t \in ToolNames}}
    \cup {Join(sys, ScriptCwd(sys), t \o x) : t \in ToolNames, x \in SeqRange(Extensions(sys))}
    \cup {c.s : c \in {d \in CustomChoices(sys) : Truthy(d)}}

\* The subsets of S with at most k elements.
RECURSIVE SubsetsUpTo(_, _)
SubsetsUpTo(S, k) ==
    IF k = 0 THEN {{}}
    ELSE LET smaller == SubsetsUpTo(S, k - 1)
         IN  smaller \cup {p \cup {x} : p \in smaller, x \in S}

NoCall == [called |-> FALSE, tool_name |-> "", custom_path |-> None, result |-> RetNone]

\* State of the program before any start_analysis_from_config call.
NoRun == [called |-> FALSE]

\* No report has been asked for; the window has not been constructed.
ReportIdle == generator = None /\ rpCall = NoRun /\ artifacts = <<>>
GuiIdle == ui = NoRun /\ cfgFile = NoRun /\ guiEv = NoRun

InitResolver ==
    /\ system \in Systems
    /\ pathEnv \in PathEnvChoices(system)
    /\ files \in SubsetsUpTo(Universe(system, pathEnv), MaxFiles)
    /\ dirs = {}
    /\ denied = {}
    /\ ftCall = NoCall
    /\ saCall = NoRun
    /\ saPrev = NoRun
    /\ procs = <<>>
    /\ now = 0
    /\ ReportIdle
    /\ GuiIdle

\* A call find_tool(tool_name, custom_path) on the current file system.  The
\* call reads the environment and changes nothing, so each behaviour holds one
\* call: a later call would start from the same snapshot.
FindTool(tool_name, custom_path) ==
    /\ ~ftCall.called
    /\ ftCall' = [called |-> TRUE, tool_name |-> tool_name, custom_path |-> custom_path,
                  result |-> find_tool(system, pathEnv, files, tool_name, custom_path)]
    /\ UNCHANGED <<system, pathEnv, files, dirs, denied, saCall, saPrev, procs, now,
                   reportVars, guiVars>>

NextResolver ==
    \E t \in ToolNames, c \in CustomChoices(system) : FindTool(t, c)

SpecResolver == InitResolver /\ [][NextResolver]_vars

(***************************************************************************)
(* Properties of find_tool (checked under SpecResolver).                   *)
(***************************************************************************)
\* The suffix order the resolution contract states.
ClaimSuffixes(sys) == IF sys = "Windows" THEN <<".exe", ".bat">> ELSE <<"", ".sh">>

RECURSIVE Flatten(_)
Flatten(qq) == IF Len(qq) = 0 THEN <<>> ELSE Head(qq) \o Flatten(Tail(qq))

\* (a) PATH directories in list order, suffixes in order within a directory.
ClaimPathCandidates(sys, env, tool) ==
    LET entries == PathEntries(sys, env)
    IN  Flatten([i \in 1..Len(entries) |->
                   [j \in 1..2 |-> Join(sys, Strip(entries[i], "\""),
                                        tool \o ClaimSuffixes(sys)[j])]])

\* (b) the table entries of the tool, in table order.
ClaimTableCandidates(sys, tool) ==
    IF Lower(tool) \in DefaultToolKeys THEN DefaultLocations(sys, Lower(tool)) ELSE <<>>

\* (c) the script directory, same suffix order.
ClaimLocalCandidates(sys, tool) ==
    [j \in 1..2 |-> Join(sys, ScriptCwd(sys), tool \o ClaimSuffixes(sys)[j])]

ClaimOrder(sys, env, tool) ==
    ClaimPathCandidates(sys, env, tool) \o ClaimTableCandidates(sys, tool)
        \o ClaimLocalCandidates(sys, tool)

\* The first element of q that is a regular file, or not-found.
FirstExisting(fs, q) ==
    IF \E i \in 1..Len(q) : q[i] \in fs
    THEN RetPath(q[CHOOSE i \in 1..Len(q) : q[i] \in fs /\ \A k \in 1..(i - 1) : q[k] \notin fs])
    ELSE RetNone

\* The custom path of the last call names an existing regular file.
CustomExists == ftCall.custom_path.some /\ ftCall.custom_path.s \in files

\* C1: a custom path that names an existing regular file is returned as it
\* is, whatever PATH, the default table and the script directory hold.
C1_CustomAlwaysWins ==
    (ftCall.called /\ CustomExists) => ftCall.result = RetPath(ftCall.custom_path.s)

\* C1 witness: the custom path exists and the search without it would have
\* returned another file.
C1_Witness ==
    /\ ftCall.called /\ CustomExists
    /\ FirstExisting(files, ClaimOrder(system, pathEnv, ftCall.tool_name)).kind = "path"
    /\ FirstExisting(files, ClaimOrder(system, pathEnv, ftCall.tool_name)).path
          # ftCall.custom_path.s
    /\ ftCall.result = RetPath(ftCall.custom_path.s)

\* C2: when no candidate of any search location exists the call returns
\* not-found, and no call raises, table entry or not.
C2_AbsentEverywhereIsNone ==
    ftCall.called =>
        /\ ftCall.result.kind # "raise"
        /\ (/\ ~CustomExists
            /\ SeqRange(ClaimOrder(system, pathEnv, ftCall.tool_name)) \cap files = {})
           => ftCall.result = RetNone

\* C2 witness: a tool without a table entry, files on disk, none of them a
\* candidate, and the call returned not-found.
C2_Witness ==
    /\ ftCall.called
    /\ Lower(ftCall.tool_name) \notin DefaultToolKeys
    /\ files # {}
    /\ ~CustomExists
    /\ SeqRange(ClaimOrder(system, pathEnv, ftCall.tool_name)) \cap files = {}
    /\ ftCall.result = RetNone

\* C3: without a custom hit the call returns the first existing candidate in
\* the order PATH (list order, suffix order), table (table order), script
\* directory (suffix order), and not-found when there is none.
C3_FirstCandidateInOrder ==
    (ftCall.called /\ ~CustomExists) =>
        ftCall.result = FirstExisting(files, ClaimOrder(system, pathEnv, ftCall.tool_name))

\* C3 witness: a table entry was returned while a script-directory candidate
\* exists too and no PATH candidate does.
C3_Witness ==
    /\ ftCall.called /\ ~CustomExists
    /\ SeqRange(ClaimPathCandidates(system, pathEnv, ftCall.tool_name)) \cap files = {}
    /\ ftCall.result.kind = "path"
    /\ ftCall.result.path \in SeqRange(ClaimTableCandidates(system, ftCall.tool_name))
    /\ SeqRange(ClaimLocalCandidates(system, ftCall.tool_name)) \cap files # {}

\* C4: a custom path that is given but names no existing file neither raises
\* nor ends the search: the result is that of the call without a custom path.
C4_MissingCustomContinues ==
    (ftCall.called /\ ftCall.custom_path.some /\ ~CustomExists) =>
        /\ ftCall.result.kind # "raise"
        /\ ftCall.result = find_tool(system, pathEnv, files, ftCall.tool_name, None)

\* C4 witness: an absolute custom path that does not exist, and the call
\* still found the tool further down.
C4_Witness ==
    /\ ftCall.called /\ ftCall.custom_path.some /\ ~CustomExists
    /\ IsAbs(system, ftCall.custom_path.s)
    /\ ftCall.result.kind = "path"

(***************************************************************************)
(* JSON values of a configuration.                                         *)
(*                                                                         *)
(* A section of the configuration is absent, a non-mapping value (a JSON   *)
(* string or number) or a mapping.  A mapping is the sequence of its       *)
(* <<key, value>> pairs in insertion order, its keys distinct.             *)
(***************************************************************************)
Absent == [t |-> "absent", m |-> <<>>]
Scalar == [t |-> "scalar", m |-> <<>>]
Mapping(m) == [t |-> "map", m |-> m]

\* Leaf values of the procmon_settings, binary and vm sections.
VBool(b) == [ty |-> "bool", b |-> b, s |-> ""]
VStr(s) == [ty |-> "str", b |-> FALSE, s |-> s]
VNone == [ty |-> "none", b |-> FALSE, s |-> ""]

\* bool(v)
PyTruthy(v) ==
    CASE v.ty = "bool" -> v.b
      [] v.ty = "str"  -> Len(v.s) > 0
      [] OTHER         -> FALSE

\* str(v), as an f-string formats it
PyStr(v) ==
    CASE v.ty = "bool" -> IF v.b THEN "True" ELSE "False"
      [] v.ty = "str"  -> v.s
      [] OTHER         -> "None"

\* key in m
HasKey(m, k) == \E i \in 1..Len(m) : m[i][1] = k

\* m.get(k, default)
Get(m, k, default) ==
    IF HasKey(m, k) THEN m[CHOOSE i \in 1..Len(m) : m[i][1] = k][2] ELSE default

(***************************************************************************)
(* pathlib: Path(s), Path.parent, Path.mkdir                               *)
(***************************************************************************)
RECURSIVE JoinParts(_)
JoinParts(parts) ==
    IF Len(parts) = 0 THEN ""
    ELSE IF Len(parts) = 1 THEN parts[1]
    ELSE parts[1] \o "/" \o JoinParts(Tail(parts))

\* The components of a path string: empty and "." components are dropped.
Parts(s) == SelectSeq(Split(s, "/"), LAMBDA c : c # "" /\ c # ".")

FromParts(abs, parts) ==
    IF abs THEN "/" \o JoinParts(parts)
    ELSE IF Len(parts) = 0 THEN "." ELSE JoinParts(parts)

\* str(Path(s)) on a POSIX host
PathOf(s) == FromParts(Len(s) > 0 /\ Char(s, 1) = "/", Parts(s))

\* str(Path(p).parent): the parent of "/" is "/", that of "." is "."
Parent(p) ==
    LET parts == Parts(p)
    IN  FromParts(Len(p) > 0 /\ Char(p, 1) = "/",
                  IF Len(parts) = 0 THEN parts ELSE SubSeq(parts, 1, Len(parts) - 1))

\* os.mkdir(p): "ok" or the errno of the OSError
OsMkdir(ds, fl, dn, p) ==
    IF Parent(p) \in fl THEN "ENOTDIR"
    ELSE IF Parent(p) \notin ds THEN "ENOENT"
    ELSE IF p \in ds \cup fl THEN "EEXIST"
    ELSE IF Parent(p) \in dn THEN "EACCES"
    ELSE "ok"

\* Path(p).mkdir(parents=parents, exist_ok=exist_ok): the directories after
\* the call, and whether it raised.
RECURSIVE PathMkdir(_, _, _, _, _, _)
PathMkdir(ds, fl, dn, p, parents, exist_ok) ==
    LET r == OsMkdir(ds, fl, dn, p)
    IN  IF r = "ok" THEN [ok |-> TRUE, dirs |-> ds \cup {p}]
        ELSE IF r = "ENOENT"
        THEN IF ~parents \/ Parent(p) = p THEN [ok |-> FALSE, dirs |-> ds]
             ELSE LET up == PathMkdir(ds, fl, dn, Parent(p), TRUE, TRUE)
                  IN  IF ~up.ok THEN up
                      ELSE PathMkdir(up.dirs, fl, dn, p, FALSE, exist_ok)
        ELSE IF exist_ok /\ p \in ds THEN [ok |-> TRUE, dirs |-> ds]
        ELSE [ok |-> FALSE, dirs |-> ds]

\* Fault variant of EnsureDir: mkdir without exist_ok.
EnsureDirNoExistOk(ds, fl, dn, p) == PathMkdir(ds, fl, dn, p, TRUE, FALSE)

\* Fault variant of EnsureDir: the OSError of mkdir is caught and dropped.
EnsureDirSwallow(ds, fl, dn, p) ==
    [ok |-> TRUE, dirs |-> PathMkdir(ds, fl, dn, p, TRUE, TRUE).dirs]

\* d.mkdir(parents=True, exist_ok=True)
EnsureDir(ds, fl, dn, p) == PathMkdir(ds, fl, dn, p, TRUE, TRUE)

\* for d in [analysis_dir, tools_dir, binary_dir, utils_dir, desktop_dir]: d.mkdir(...)
RECURSIVE EnsureDirs(_, _, _, _, _)
EnsureDirs(ds, fl, dn, ps, i) ==
    IF i > Len(ps) THEN [ok |-> TRUE, dirs |-> ds]
    ELSE LET r == EnsureDir(ds, fl, dn, ps[i])
         IN  IF ~r.ok THEN r ELSE EnsureDirs(r.dirs, fl, dn, ps, i + 1)

(***************************************************************************)
(* start_analysis_from_config(config, status_callback)                     *)
(*                                                                         *)
(* config is [top, paths, static_tools, dynamic_tools, procmon_settings,   *)
(* binary, vm]: top is "dict" when the value (given, or loaded from the    *)
(* file) is a mapping, "list" when it is another JSON value and "nofile"   *)
(* when the file cannot be opened or parsed.                               *)
(***************************************************************************)
NoSummary == [none |-> TRUE]

\* The call raised: what had been reported and created by then.
Raised(err, msgs, ds) ==
    [kind |-> "raised", error |-> err, summary |-> NoSummary, messages |-> msgs,
     dirs |-> ds, started |-> <<>>]

\* The call returned its summary.  The function starts no process.
Returned(summary, msgs, ds) ==
    [kind |-> "returned", error |-> "", summary |-> summary, messages |-> msgs,
     dirs |-> ds, started |-> <<>>]

\* config.get(section, {}) of a section that is not a non-mapping value
SectionMap(jv) == IF jv.t = "map" THEN jv.m ELSE <<>>

\* [analysis_dir, tools_dir, binary_dir, utils_dir, desktop_dir]
WorkDirs(paths) ==
    <<PathOf(Get(paths, "analysis", "./analysis")),
      PathOf(Get(paths, "tools", "./tools")),
      PathOf(Get(paths, "binary", "./binary")),
      PathOf(Get(paths, "utils", "./utils")),
      PathOf(Get(paths, "desktop", "./"))>>

\* Fault variant of EnabledTools: the flag is not tested.
RECURSIVE AllTools(_)
AllTools(m) == IF Len(m) = 0 THEN <<>> ELSE <<Head(m)[1]>> \o AllTools(Tail(m))

\* Fault variant of EnabledTools: the enabled tools in reverse order.
RECURSIVE EnabledToolsReversed(_)
EnabledToolsReversed(m) ==
    IF Len(m) = 0 THEN <<>>
    ELSE EnabledToolsReversed(Tail(m)) \o (IF Head(m)[2] THEN <<Head(m)[1]>> ELSE <<>>)

\* [tool for tool, enabled in m.items() if enabled]
RECURSIVE EnabledTools(_)
EnabledTools(m) ==
    IF Len(m) = 0 THEN <<>>
    ELSE (IF Head(m)[2] THEN <<Head(m)[1]>> ELSE <<>>) \o EnabledTools(Tail(m))

\* Fault variant of CollectTools: a non-mapping section counts as empty.
CollectToolsLenient(jv) == [ok |-> TRUE, tools |-> EnabledTools(SectionMap(jv))]

\* config.get(section, {}).items(): a non-mapping value has no items()
CollectTools(jv) ==
    IF jv.t = "scalar" THEN [ok |-> FALSE, tools |-> <<>>]
    ELSE [ok |-> TRUE, tools |-> EnabledTools(SectionMap(jv))]

\* report(f"  - {tool}") for each tool
ToolLines(tools) == [i \in 1..Len(tools) |-> "  - " \o tools[i]]

\* Lines 96-102: the two tool lists as reported.
ToolReport(static, dynamic) ==
    <<"Static tools to run:">> \o ToolLines(static)
        \o <<"Dynamic tools to run:">> \o ToolLines(dynamic)

\* Lines 106-107
ProcmonReport(procmon) ==
    IF PyTruthy(Get(procmon, "enabled", VNone))
    THEN <<"Procmon enabled: duration=" \o PyStr(Get(procmon, "duration", VNone))
             \o " disable_timer=" \o PyStr(Get(procmon, "disable_timer", VNone))>>
    ELSE <<>>

\* Lines 111-112
BinaryReport(binary) ==
    <<"Binary path: " \o PyStr(Get(binary, "path", VNone)),
      "Run: " \o PyStr(Get(binary, "run", VNone)) \o ", As Admin: "
          \o PyStr(Get(binary, "as_admin", VNone))>>

\* Lines 116-117
VmReport(vm) ==
    IF Len(vm) > 0
    THEN <<"VM type: " \o PyStr(Get(vm, "type", VNone)) \o ", Path: "
             \o PyStr(Get(vm, "path", VNone)) \o ", Snapshot: "
             \o PyStr(Get(vm, "snapshot", VNone))>>
    ELSE <<>>

\* Lines 104-135, once both tool lists are collected.
ReportAndReturn(config, static, dynamic, ds) ==
    LET m1 == ToolReport(static, dynamic)
    IN  IF config.procmon_settings.t = "scalar" THEN Raised("AttributeError", m1, ds)
        ELSE LET procmon == SectionMap(config.procmon_settings)
                 m2 == m1 \o ProcmonReport(procmon)
             IN  IF config.binary.t = "scalar" THEN Raised("AttributeError", m2, ds)
                 ELSE LET binary == SectionMap(config.binary)
                          m3 == m2 \o BinaryReport(binary)
                      IN  IF config.vm.t = "scalar" THEN Raised("AttributeError", m3, ds)
                          ELSE LET vm == SectionMap(config.vm)
                                   m4 == m3 \o VmReport(vm)
                               IN  Returned(
                                     [static_tools |-> static, dynamic_tools |-> dynamic,
                                      procmon |-> procmon, binary |-> binary, vm |-> vm,
                                      paths |-> SectionMap(config.paths)],
                                     m4 \o <<"Analysis environment prepared. Ready to launch tools.">>,
                                     ds)

start_analysis_from_config(config, ds, fl, dn) ==
    IF config.top = "nofile" THEN Raised("OSError/JSONDecodeError", <<>>, ds)
    ELSE IF config.top # "dict" THEN Raised("AssertionError", <<>>, ds)
    ELSE IF config.paths.t = "scalar" THEN Raised("AttributeError", <<>>, ds)
    ELSE LET made == EnsureDirs(ds, fl, dn, WorkDirs(SectionMap(config.paths)), 1)
         IN  IF ~made.ok THEN Raised("OSError", <<>>, made.dirs)
             ELSE LET static == CollectTools(config.static_tools)
                      dynamic == CollectTools(config.dynamic_tools)
                  IN  IF ~static.ok \/ ~dynamic.ok
                      THEN Raised("AttributeError", <<>>, made.dirs)
                      ELSE ReportAndReturn(config, static.tools, dynamic.tools, made.dirs)

(***************************************************************************)
(* Inputs of the run-preparation specification.                            *)
(***************************************************************************)
StaticNames == {"Capa", "Yara"}
DynamicNames == {"Procmon", "TTD", "Fakenet"}

Keys(m) == {m[i][1] : i \in 1..Len(m)}

\* The tool mappings with at most k entries over names: keys distinct, every
\* insertion order, every flag.
RECURSIVE ToolMaps(_, _)
ToolMaps(names, k) ==
    IF k = 0 THEN {<<>>}
    ELSE LET shorter == ToolMaps(names, k - 1)
         IN  shorter \cup
             UNION {{Append(m, <<n, b>>) : n \in names \ Keys(m), b \in BOOLEAN} : m \in shorter}

ToolSections(names) == {Absent, Scalar} \cup {Mapping(m) : m \in ToolMaps(names, MaxTools)}

PathsSections ==
    {Absent, Scalar,
     Mapping(<<<<"analysis", "/data/run1/analysis">>, <<"binary", "/data/run1/binary">>,
               <<"desktop", "/data/run1/desktop">>>>),
     Mapping(<<<<"analysis", "out/a">>, <<"tools", "out/a/">>, <<"desktop", "./out">>>>)}

ProcmonOn ==
    Mapping(<<<<"enabled", VBool(TRUE)>>, <<"duration", VStr("5")>>,
              <<"disable_timer", VBool(FALSE)>>>>)

BinarySection ==
    Mapping(<<<<"path", VStr("/samples/a.exe")>>, <<"run", VBool(TRUE)>>,
              <<"as_admin", VBool(FALSE)>>, <<"bin_pass", VStr("")>>>>)

VmSection == Mapping(<<<<"username", VStr("analyst")>>, <<"password", VStr("pw")>>>>)

\* The procmon_settings, binary and vm sections of a configuration.
RestSections ==
    {[procmon_settings |-> Absent, binary |-> Absent, vm |-> Absent],
     [procmon_settings |-> ProcmonOn, binary |-> BinarySection, vm |-> VmSection],
     [procmon_settings |-> Scalar, binary |-> BinarySection, vm |-> Absent],
     [procmon_settings |-> ProcmonOn, binary |-> Scalar, vm |-> Absent],
     [procmon_settings |-> Absent, binary |-> BinarySection, vm |-> Scalar]}

MakeConfig(p, st, dy, r) ==
    [top |-> "dict", paths |-> p, static_tools |-> st, dynamic_tools |-> dy,
     procmon_settings |-> r.procmon_settings, binary |-> r.binary, vm |-> r.vm]

\* Every pair of tool sections, on the default paths, with the other sections
\* absent or all present.
ToolConfigs ==
    {MakeConfig(Absent, st, dy, r) :
        st \in ToolSections(StaticNames), dy \in ToolSections(DynamicNames),
        r \in {x \in RestSections : x.procmon_settings.t # "scalar" /\ x.binary.t # "scalar"
                                     /\ x.vm.t # "scalar"}}

\* Every paths section with every choice of the other sections, for one pair
\* of tool sections.
SectionConfigs ==
    {MakeConfig(p,
                Mapping(<<<<"Yara", TRUE>>, <<"Capa", FALSE>>>>),
                Mapping(<<<<"TTD", TRUE>>, <<"Procmon", TRUE>>>>), r) :
        p \in PathsSections, r \in RestSections}

Configs ==
    ToolConfigs \cup SectionConfigs \cup
    {[top |-> t, paths |-> Absent, static_tools |-> Absent, dynamic_tools |-> Absent,
      procmon_settings |-> Absent, binary |-> Absent, vm |-> Absent] : t \in {"list", "nofile"}}

\* File-system snapshots a run may start from: the root and the working
\* directory exist; a regular file may stand where a directory is wanted and
\* a directory may be read-only.
Snapshots ==
    {[dirs |-> {"/", "."}, files |-> {}, denied |-> {}],
     [dirs |-> {"/", ".", "analysis", "tools", "binary", "utils"}, files |-> {}, denied |-> {}],
     [dirs |-> {"/", "."}, files |-> {"utils"}, denied |-> {}],
     [dirs |-> {"/", "."}, files |-> {"/data", "out"}, denied |-> {}],
     [dirs |-> {"/", ".", "/data", "out"}, files |-> {}, denied |-> {"/data", "out"}],
     [dirs |-> {"/", "."}, files |-> {}, denied |-> {"."}]}

InitPlan ==
    /\ system = "Linux"
    /\ pathEnv = [set |-> FALSE, value |-> ""]
    /\ \E snap \in Snapshots :
          /\ dirs = snap.dirs
          /\ files = snap.files
          /\ denied = snap.denied
    /\ ftCall = NoCall
    /\ saCall = NoRun
    /\ saPrev = NoRun
    /\ procs = <<>>
    /\ now = 0
    /\ ReportIdle
    /\ GuiIdle

\* The first start_analysis_from_config(config) call of a behaviour.
StartAnalysis(config) ==
    /\ ~saCall.called
    /\ LET out == start_analysis_from_config(config, dirs, files, denied)
       IN  /\ saCall' = [called |-> TRUE, n |-> 1, config |-> config, out |-> out]
           /\ dirs' = out.dirs
           /\ procs' = procs \o out.started
    /\ saPrev' = saCall
    /\ UNCHANGED <<system, pathEnv, files, denied, ftCall, now, reportVars, guiVars>>

\* The same configuration is run again on the file system the last call left.
Rerun ==
    /\ saCall.called
    /\ saCall.n < MaxRuns
    /\ LET out == start_analysis_from_config(saCall.config, dirs, files, denied)
       IN  /\ saCall' = [called |-> TRUE, n |-> saCall.n + 1, config |-> saCall.config,
                         out |-> out]
           /\ dirs' = out.dirs
           /\ procs' = procs \o out.started
    /\ saPrev' = saCall
    /\ UNCHANGED <<system, pathEnv, files, denied, ftCall, now, reportVars, guiVars>>

NextPlan ==
    \/ \E config \in Configs : StartAnalysis(config)
    \/ Rerun

SpecPlan == InitPlan /\ [][NextPlan]_vars

(***************************************************************************)
(* Properties of start_analysis_from_config (checked under SpecPlan).      *)
(***************************************************************************)
\* The last call returned its summary.
RunReturned == saCall.called /\ saCall.out.kind = "returned"

\* The entries of a tool section (none when the section is absent).
Entries(jv) == IF jv.t = "map" THEN jv.m ELSE <<>>

\* The flag of tool name is set in the section.
FlagSet(jv, name) == \E i \in 1..Len(Entries(jv)) : Entries(jv)[i] = <<name, TRUE>>

\* The position of the key name in the section.
Position(jv, name) == CHOOSE i \in 1..Len(Entries(jv)) : Entries(jv)[i][1] = name

\* list holds exactly the names whose flag is set, each once, in the order of
\* the section.
ExactlyEnabledInOrder(list, jv) ==
    /\ SeqRange(list) = {n \in Keys(Entries(jv)) : FlagSet(jv, n)}
    /\ \A i, j \in 1..Len(list) :
          i < j => /\ list[i] # list[j]
                   /\ Position(jv, list[i]) < Position(jv, list[j])

\* No tool section has a flag set (an absent section has none).
AllDisabled(config) ==
    /\ config.top = "dict"
    /\ \A jv \in {config.static_tools, config.dynamic_tools} :
          jv.t # "scalar" /\ \A n \in Keys(Entries(jv)) : ~FlagSet(jv, n)

\* Every section of the configuration is a mapping or absent.
WellFormed(config) ==
    /\ config.top = "dict"
    /\ \A jv \in {config.paths, config.static_tools, config.dynamic_tools} : jv.t # "scalar"
    /\ \A jv \in {config.procmon_settings, config.binary, config.vm} : jv.t # "scalar"

\* The five working directories of the last call's configuration all exist.
WorkDirsExist == SeqRange(WorkDirs(Entries(saCall.config.paths))) \subseteq dirs

\* C5 (as claimed): with Procmon and TTD both enabled the plan holds exactly
\* one of the two as a dynamic tool and records a suppression for the other.
C5_ExactlyOneOfProcmonTTD ==
    (/\ RunReturned
     /\ FlagSet(saCall.config.dynamic_tools, "Procmon")
     /\ FlagSet(saCall.config.dynamic_tools, "TTD"))
    => /\ ("Procmon" \in SeqRange(saCall.out.summary.dynamic_tools))
             # ("TTD" \in SeqRange(saCall.out.summary.dynamic_tools))
       /\ "suppressions" \in DOMAIN saCall.out.summary

\* C6: the static list of the summary holds exactly the enabled static tools,
\* each once, in the insertion order of the mapping; the same for the dynamic
\* list.  Nothing in the model installs a tool: tools that cannot be found stay.
C6_EnabledToolsInOrder ==
    RunReturned =>
        /\ ExactlyEnabledInOrder(saCall.out.summary.static_tools, saCall.config.static_tools)
        /\ ExactlyEnabledInOrder(saCall.out.summary.dynamic_tools, saCall.config.dynamic_tools)

\* C6 witness: two dynamic tools listed, and a disabled static tool left out
\* beside an enabled one.
C6_Witness ==
    /\ RunReturned
    /\ Len(saCall.out.summary.dynamic_tools) = 2
    /\ Len(saCall.out.summary.static_tools) = 1
    /\ Len(Entries(saCall.config.static_tools)) = 2

C8_Idempotent ==
    (/\ saCall.called
     /\ saPrev.called
     /\ saPrev.config = saCall.config
     /\ saPrev.out.kind = "returned")
    => /\ saCall.out.kind = "returned"
       /\ saCall.out.summary.static_tools = saPrev.out.summary.static_tools
       /\ saCall.out.summary.dynamic_tools = saPrev.out.summary.dynamic_tools
       /\ saCall.out.summary = saPrev.out.summary

\* C8 witness: the first call created /data/run1/analysis, which no snapshot
\* holds, and listed a tool; the second call returned.
C8_Witness ==
    /\ RunReturned
    /\ saPrev.called
    /\ saPrev.out.kind = "returned"
    /\ "/data/run1/analysis" \in saPrev.out.dirs
    /\ Len(saCall.out.summary.dynamic_tools) > 0

\* C9: when a working directory could not be created the call raised, no
\* status message was emitted, no process was started, no summary returned.
C9_DirectoryFailureIsFatal ==
    (/\ saCall.called
     /\ saCall.config.top = "dict"
     /\ saCall.config.paths.t # "scalar"
     /\ ~WorkDirsExist)
    => /\ saCall.out.kind = "raised"
       /\ saCall.out.messages = <<>>
       /\ saCall.out.started = <<>>
       /\ procs = <<>>
       /\ saCall.out.summary = NoSummary

\* C9 witness: tools are enabled, the first working directory was created and
\* a later one could not be, and the call raised.
C9_Witness ==
    /\ saCall.called
    /\ saCall.config.top = "dict"
    /\ saCall.config.paths.t # "scalar"
    /\ FlagSet(saCall.config.dynamic_tools, "Procmon")
    /\ WorkDirs(Entries(saCall.config.paths))[1] \in dirs
    /\ ~WorkDirsExist
    /\ saCall.out.kind = "raised"

\* The loaded value, or its paths, static_tools or dynamic_tools section, is
\* not a mapping.
Malformed(config) ==
    \/ config.top = "list"
    \/ /\ config.top = "dict"
       /\ \E jv \in {config.paths, config.static_tools, config.dynamic_tools} : jv.t = "scalar"

\* C10: a malformed configuration makes the call raise before any tool is
\* resolved, reported or launched, and no summary is returned.
C10_MalformedConfigIsFatal ==
    (saCall.called /\ Malformed(saCall.config))
    => /\ saCall.out.kind = "raised"
       /\ saCall.out.messages = <<>>
       /\ saCall.out.started = <<>>
       /\ procs = <<>>
       /\ ~ftCall.called
       /\ saCall.out.summary = NoSummary

\* C10 witness: static_tools is not a mapping while a dynamic tool is enabled
\* and the working directories were created; the call raised.
C10_Witness ==
    /\ saCall.called
    /\ saCall.config.top = "dict"
    /\ saCall.config.static_tools.t = "scalar"
    /\ FlagSet(saCall.config.dynamic_tools, "TTD")
    /\ WorkDirsExist
    /\ saCall.out.kind = "raised"

(***************************************************************************)
(* report.py: values of an analysis result and the json module             *)
(*                                                                         *)
(* A value is a dict with string keys (its items a sequence of             *)
(* <<key, value>> pairs in insertion order), a list, a str, an int, a bool *)
(* or None: the values json.load returns.                                  *)
(***************************************************************************)
JDict(items) == [ty |-> "dict", b |-> FALSE, n |-> 0, s |-> "", items |-> items]
JList(items) == [ty |-> "list", b |-> FALSE, n |-> 0, s |-> "", items |-> items]
JStr(s) == [ty |-> "str", b |-> FALSE, n |-> 0, s |-> s, items |-> <<>>]
JInt(n) == [ty |-> "int", b |-> FALSE, n |-> n, s |-> "", items |-> <<>>]
JBool(b) == [ty |-> "bool", b |-> b, n |-> 0, s |-> "", items |-> <<>>]
JNull == [ty |-> "null", b |-> FALSE, n |-> 0, s |-> "", items |-> <<>>]

\* bool(v)
JTruthy(v) ==
    CASE v.ty = "dict" -> Len(v.items) > 0
      [] v.ty = "list" -> Len(v.items) > 0
      [] v.ty = "str"  -> Len(v.s) > 0
      [] v.ty = "int"  -> v.n # 0
      [] v.ty = "bool" -> v.b
      [] OTHER         -> FALSE

\* d.get(k, default) on a dict value
JGet(d, k, default) == Get(d.items, k, default)

Digit(d) == SubSeq("0123456789", d + 1, d + 1)

RECURSIVE NatStr(_)
NatStr(n) == IF n < 10 THEN Digit(n) ELSE NatStr(n \div 10) \o Digit(n % 10)

\* str(n) of an int
IntStr(n) == IF n < 0 THEN "-" \o NatStr(0 - n) ELSE NatStr(n)

RECURSIVE Spaces(_)
Spaces(n) == IF n = 0 THEN "" ELSE " " \o Spaces(n - 1)

\* The body of a JSON string literal: quote and backslash are escaped.
RECURSIVE EscapeFrom(_, _)
EscapeFrom(s, i) ==
    IF i > Len(s) THEN ""
    ELSE LET c == Char(s, i)
         IN  (IF c = "\"" THEN "\\\"" ELSE IF c = "\\" THEN "\\\\" ELSE c)
             \o EscapeFrom(s, i + 1)

\* Fault variant of Quoted: the text is written without escaping.
QuotedRaw(s) == "\"" \o s \o "\""

Quoted(s) == "\"" \o EscapeFrom(s, 1) \o "\""

\* json.dumps(v, indent=indent) at nesting depth level
RECURSIVE DumpsAt(_, _, _)
RECURSIVE DumpItems(_, _, _, _, _)
DumpItems(items, isDict, indent, level, i) ==
    LET item == IF isDict
                THEN Quoted(items[i][1]) \o ": " \o DumpsAt(items[i][2], indent, level)
                ELSE DumpsAt(items[i], indent, level)
    IN  IF i = Len(items) THEN item
        ELSE item \o ",\n" \o Spaces(indent * level)
                  \o DumpItems(items, isDict, indent, level, i + 1)

DumpsAt(v, indent, level) ==
    CASE v.ty = "null" -> "null"
      [] v.ty = "bool" -> IF v.b THEN "true" ELSE "false"
      [] v.ty = "int"  -> IntStr(v.n)
      [] v.ty = "str"  -> Quoted(v.s)
      [] v.ty = "list" ->
            IF Len(v.items) = 0 THEN "[]"
            ELSE "[\n" \o Spaces(indent * (level + 1))
                 \o DumpItems(v.items, FALSE, indent, level + 1, 1)
                 \o "\n" \o Spaces(indent * level) \o "]"
      [] OTHER ->
            IF Len(v.items) = 0 THEN "{}"
            ELSE "{\n" \o Spaces(indent * (level + 1))
                 \o DumpItems(v.items, TRUE, indent, level + 1, 1)
                 \o "\n" \o Spaces(indent * level) \o "}"

Dumps(v, indent) == DumpsAt(v, indent, 0)

(***************************************************************************)
(* json.loads: a recursive-descent reading of the text.  Each reader       *)
(* returns whether it succeeded, the value read and the index after it.    *)
(***************************************************************************)
Read(v, i) == [ok |-> TRUE, v |-> v, i |-> i]
ReadFail(i) == [ok |-> FALSE, v |-> JNull, i |-> i]

IsDigit(c) == \E d \in 0..9 : Digit(d) = c
DigitVal(c) == CHOOSE d \in 0..9 : Digit(d) = c

StartsAt(s, i, lit) == i + Len(lit) - 1 <= Len(s) /\ SubSeq(s, i, i + Len(lit) - 1) = lit

RECURSIVE SkipWs(_, _)
SkipWs(s, i) ==
    IF i <= Len(s) /\ Char(s, i) \in {" ", "\n"} THEN SkipWs(s, i + 1) ELSE i

\* The characters of a string literal from index i to its closing quote.
RECURSIVE ScanStr(_, _, _)
ScanStr(s, i, acc) ==
    IF i > Len(s) THEN ReadFail(i)
    ELSE LET c == Char(s, i)
         IN  IF c = "\"" THEN Read(JStr(acc), i + 1)
             ELSE IF c = "\\"
             THEN IF i + 1 <= Len(s) /\ Char(s, i + 1) \in {"\"", "\\"}
                  THEN ScanStr(s, i + 2, acc \o Char(s, i + 1))
                  ELSE ReadFail(i)
             ELSE ScanStr(s, i + 1, acc \o c)

RECURSIVE ScanNat(_, _, _)
ScanNat(s, i, acc) ==
    IF i <= Len(s) /\ IsDigit(Char(s, i))
    THEN ScanNat(s, i + 1, acc * 10 + DigitVal(Char(s, i)))
    ELSE Read(JInt(acc), i)

RECURSIVE ParseValue(_, _)
RECURSIVE ParseElements(_, _, _)
RECURSIVE ParseMembers(_, _, _)

\* The elements of an array after "[" or ",".
ParseElements(s, i, acc) ==
    LET r == ParseValue(s, i)
        j == SkipWs(s, r.i)
    IN  IF ~r.ok \/ j > Len(s) THEN ReadFail(i)
        ELSE IF Char(s, j) = "," THEN ParseElements(s, j + 1, Append(acc, r.v))
        ELSE IF Char(s, j) = "]" THEN Read(JList(Append(acc, r.v)), j + 1)
        ELSE ReadFail(j)

\* The members of an object after "{" or ",": a later member replaces an
\* earlier one of the same name.
ParseMembers(s, i, acc) ==
    LET k == SkipWs(s, i)
        key == IF k <= Len(s) /\ Char(s, k) = "\"" THEN ScanStr(s, k + 1, "")
               ELSE ReadFail(k)
        c == SkipWs(s, key.i)
        r == IF key.ok /\ c <= Len(s) /\ Char(s, c) = ":" THEN ParseValue(s, c + 1)
             ELSE ReadFail(c)
        j == SkipWs(s, r.i)
        rest == SelectSeq(acc, LAMBDA kv : kv[1] # key.v.s)
        items == Append(rest, <<key.v.s, r.v>>)
    IN  IF ~r.ok \/ j > Len(s) THEN ReadFail(i)
        ELSE IF Char(s, j) = "," THEN ParseMembers(s, j + 1, items)
        ELSE IF Char(s, j) = "}" THEN Read(JDict(items), j + 1)
        ELSE ReadFail(j)

ParseValue(s, i0) ==
    LET i == SkipWs(s, i0)
    IN  IF i > Len(s) THEN ReadFail(i)
        ELSE LET c == Char(s, i)
             IN  CASE c = "{" ->
                        LET j == SkipWs(s, i + 1)
                        IN  IF j <= Len(s) /\ Char(s, j) = "}" THEN Read(JDict(<<>>), j + 1)
                            ELSE ParseMembers(s, i + 1, <<>>)
                   [] c = "[" ->
                        LET j == SkipWs(s, i + 1)
                        IN  IF j <= Len(s) /\ Char(s, j) = "]" THEN Read(JList(<<>>), j + 1)
                            ELSE ParseElements(s, i + 1, <<>>)
                   [] c = "\"" -> ScanStr(s, i + 1, "")
                   [] c = "-" ->
                        IF i + 1 <= Len(s) /\ IsDigit(Char(s, i + 1))
                        THEN LET r == ScanNat(s, i + 1, 0) IN Read(JInt(0 - r.v.n), r.i)
                        ELSE ReadFail(i)
                   [] IsDigit(c) -> ScanNat(s, i, 0)
                   [] StartsAt(s, i, "true") -> Read(JBool(TRUE), i + 4)
                   [] StartsAt(s, i, "false") -> Read(JBool(FALSE), i + 5)
                   [] StartsAt(s, i, "null") -> Read(JNull, i + 4)
                   [] OTHER -> ReadFail(i)

\* json.loads(s): the value, or a failure when s is not one JSON document
Loads(s) ==
    LET r == ParseValue(s, 1)
    IN  IF r.ok /\ SkipWs(s, r.i) > Len(s) THEN r ELSE ReadFail(r.i)

(***************************************************************************)
(* report.py: ReportGenerator                                              *)
(*                                                                         *)
(* An analysis result is a dict value; its "binary" entry, when present,   *)
(* is a dict whose "name" and "path" are strings.  A report file is        *)
(* [path, text, doc]: text is what was written to a text file, doc the     *)
(* elements [style, text] of a saved document, in order.                   *)
(***************************************************************************)
\* datetime.now().strftime("%Y%m%d_%H%M%S") at second t of the minute
Stamp(t) == "20250101_0000" \o (IF t < 10 THEN "0" ELSE "") \o NatStr(t)

\* f"{v}" of a str, int, bool or None
Format(v) ==
    CASE v.ty = "str"  -> v.s
      [] v.ty = "int"  -> IntStr(v.n)
      [] v.ty = "bool" -> IF v.b THEN "True" ELSE "False"
      [] OTHER         -> "None"

\* analysis_results.get("binary", {}).get(k, default)
BinaryField(results, k, default) ==
    JGet(JGet(results, "binary", JDict(<<>>)), k, JStr(default))

\* open(path, 'w') succeeds: the directory exists and the entry can be made.
CanWrite(ds, fl, dn, path) ==
    /\ Parent(path) \in ds
    /\ path \notin ds
    /\ path \in fl \/ Parent(path) \notin dn

TextFile(path, text) == [path |-> path, text |-> text, doc |-> <<>>]
DocFile(path, doc) == [path |-> path, text |-> "", doc |-> doc]

\* What one renderer did: the file it wrote, if any, and the mapping it was
\* given as the caller sees it afterwards.
Written(file, results) ==
    [ok |-> TRUE, error |-> "", message |-> "", paths |-> <<file.path>>,
     writes |-> <<file>>, results |-> results]
Failed(err, msg, results) ==
    [ok |-> FALSE, error |-> err, message |-> msg, paths |-> <<>>, writes |-> <<>>,
     results |-> results]

\* Fault variant of _generate_json_report: the timestamp is stored into the
\* caller's mapping before it is written.
JsonReportStamping(report_dir, ds, fl, dn, results, timestamp, binary_name) ==
    LET report_path == report_dir \o "/" \o binary_name \o "_" \o timestamp \o ".json"
        stamped == JDict(Append(SelectSeq(results.items, LAMBDA kv : kv[1] # "timestamp"),
                                <<"timestamp", JStr(timestamp)>>))
        report_data == JDict(<<<<"binary", JStr(binary_name)>>,
                               <<"analysis_results", stamped>>>>)
    IN  IF ~CanWrite(ds, fl, dn, report_path)
        THEN Failed("PermissionError", report_path, stamped)
        ELSE Written(TextFile(report_path, Dumps(report_data, 4)), stamped)

\* Fault variant of _generate_json_report: only the sections the other
\* renderers know are written.
JsonReportKnownKeys(report_dir, ds, fl, dn, results, timestamp, binary_name) ==
    LET report_path == report_dir \o "/" \o binary_name \o "_" \o timestamp \o ".json"
        known == {"binary", "static_results", "dynamic_results", "procmon_results"}
        report_data == JDict(<<<<"binary", JStr(binary_name)>>,
                               <<"timestamp", JStr(timestamp)>>,
                               <<"analysis_results",
                                 JDict(SelectSeq(results.items,
                                                 LAMBDA kv : kv[1] \in known))>>>>)
    IN  IF ~CanWrite(ds, fl, dn, report_path)
        THEN Failed("PermissionError", report_path, results)
        ELSE Written(TextFile(report_path, Dumps(report_data, 4)), results)

\* self._generate_json_report(results, timestamp, binary_name)
JsonReport(report_dir, ds, fl, dn, results, timestamp, binary_name) ==
    LET report_path == report_dir \o "/" \o binary_name \o "_" \o timestamp \o ".json"
        report_data == JDict(<<<<"binary", JStr(binary_name)>>,
                               <<"timestamp", JStr(timestamp)>>,
                               <<"analysis_results", results>>>>)
    IN  IF ~CanWrite(ds, fl, dn, report_path)
        THEN Failed("PermissionError", report_path, results)
        ELSE Written(TextFile(report_path, Dumps(report_data, 4)), results)

\* The fence of a Markdown code block.  The code writes three backquotes; a
\* string of this module cannot hold a backquote, so tildes stand for them.
Fence == "~~~"

\* self._format_tool_results_markdown(tool_results)
RECURSIVE ToolResultsFrom(_, _)
ToolResultsFrom(items, i) ==
    IF i > Len(items) THEN ""
    ELSE "\n### " \o items[i][1] \o "\n\n" \o Fence \o "json\n" \o Dumps(items[i][2], 2)
         \o "\n" \o Fence \o "\n"
         \o ToolResultsFrom(items, i + 1)

FormatToolResultsMarkdown(tool_results) ==
    IF ~JTruthy(tool_results) THEN "No results available\n"
    ELSE ToolResultsFrom(tool_results.items, 1)

\* self._format_procmon_results_markdown(procmon_results)
FormatProcmonResultsMarkdown(procmon_results) ==
    IF ~JTruthy(procmon_results) THEN "No Procmon data available\n"
    ELSE "\n" \o Fence \o "json\n" \o Dumps(procmon_results, 2) \o "\n" \o Fence \o "\n"

\* The md_content f-string of _generate_markdown_report
MarkdownContent(results, timestamp, binary_name) ==
    "# Malware Analysis Report\n\n## Summary\n"
    \o "- **Binary:** " \o binary_name \o "\n"
    \o "- **Analysis Date:** " \o timestamp \o "\n"
    \o "- **Binary Path:** " \o Format(BinaryField(results, "path", "N/A")) \o "\n"
    \o "\n## Static Analysis Results\n"
    \o FormatToolResultsMarkdown(JGet(results, "static_results", JDict(<<>>))) \o "\n"
    \o "\n## Dynamic Analysis Results\n"
    \o FormatToolResultsMarkdown(JGet(results, "dynamic_results", JDict(<<>>))) \o "\n"
    \o "\n## Procmon Results\n"
    \o FormatProcmonResultsMarkdown(JGet(results, "procmon_results", JDict(<<>>))) \o "\n"

\* self._generate_markdown_report(results, timestamp, binary_name)
MarkdownReport(report_dir, ds, fl, dn, results, timestamp, binary_name) ==
    LET report_path == report_dir \o "/" \o binary_name \o "_" \o timestamp \o ".md"
    IN  IF ~CanWrite(ds, fl, dn, report_path)
        THEN Failed("PermissionError", report_path, results)
        ELSE Written(TextFile(report_path,
                              MarkdownContent(results, timestamp, binary_name)), results)

Element(style, text) == [style |-> style, text |-> text]

\* for tool_name, result in tool_results.items(): heading and paragraph
RECURSIVE ToolElementsFrom(_, _)
ToolElementsFrom(items, i) ==
    IF i > Len(items) THEN <<>>
    ELSE <<Element("Heading 2", items[i][1]), Element("Paragraph", Dumps(items[i][2], 2))>>
         \o ToolElementsFrom(items, i + 1)

\* Fault variant of ToolElements: the tools are named, their results left out.
ToolElementsNamesOnly(tool_results, none_text) ==
    IF ~JTruthy(tool_results) THEN <<Element("Paragraph", none_text)>>
    ELSE [i \in 1..Len(tool_results.items) |->
             Element("Heading 2", tool_results.items[i][1])]

\* The static or dynamic section of the document.
ToolElements(tool_results, none_text) ==
    IF ~JTruthy(tool_results) THEN <<Element("Paragraph", none_text)>>
    ELSE ToolElementsFrom(tool_results.items, 1)

\* The elements added to the Document of _generate_docx_report
DocxContent(results, timestamp, binary_name) ==
    LET procmon_results == JGet(results, "procmon_results", JDict(<<>>))
    IN  <<Element("Title", "Malware Analysis Report"),
          Element("Heading 1", "Summary"),
          Element("Cell", "Binary:"), Element("Cell", binary_name),
          Element("Cell", "Analysis Date:"), Element("Cell", timestamp),
          Element("Cell", "Binary Path:"),
          Element("Cell", Format(BinaryField(results, "path", "N/A"))),
          Element("Heading 1", "Static Analysis Results")>>
        \o ToolElements(JGet(results, "static_results", JDict(<<>>)),
                        "No static analysis results available.")
        \o <<Element("Heading 1", "Dynamic Analysis Results")>>
        \o ToolElements(JGet(results, "dynamic_results", JDict(<<>>)),
                        "No dynamic analysis results available.")
        \o <<Element("Heading 1", "Process Monitor Results"),
             IF JTruthy(procmon_results)
             THEN Element("Paragraph", Dumps(procmon_results, 2))
             ELSE Element("Paragraph", "No Process Monitor data available.")>>

\* self._generate_docx_report(results, timestamp, binary_name)
DocxReport(report_dir, ds, fl, dn, results, timestamp, binary_name) ==
    LET report_path == report_dir \o "/" \o binary_name \o "_" \o timestamp \o ".docx"
    IN  IF ~CanWrite(ds, fl, dn, report_path)
        THEN Failed("PermissionError", report_path, results)
        ELSE Written(DocFile(report_path, DocxContent(results, timestamp, binary_name)),
                     results)

\* Fault variant of generate_report: a format that is not known is rendered
\* as the default one.
GenerateReportDefaulting(report_dir, ds, fl, dn, analysis_results, report_format, t) ==
    LET timestamp == Stamp(t)
        binary_name == Format(BinaryField(analysis_results, "name", "unknown"))
    IN  IF report_format = "json"
        THEN JsonReport(report_dir, ds, fl, dn, analysis_results, timestamp, binary_name)
        ELSE IF report_format = "markdown"
        THEN MarkdownReport(report_dir, ds, fl, dn, analysis_results, timestamp, binary_name)
        ELSE DocxReport(report_dir, ds, fl, dn, analysis_results, timestamp, binary_name)

\* self.generate_report(analysis_results, report_format) at second t
generate_report(report_dir, ds, fl, dn, analysis_results, report_format, t) ==
    LET timestamp == Stamp(t)
        binary_name == Format(BinaryField(analysis_results, "name", "unknown"))
    IN  IF report_format = "json"
        THEN JsonReport(report_dir, ds, fl, dn, analysis_results, timestamp, binary_name)
        ELSE IF report_format = "markdown"
        THEN MarkdownReport(report_dir, ds, fl, dn, analysis_results, timestamp, binary_name)
        ELSE IF report_format = "docx"
        THEN DocxReport(report_dir, ds, fl, dn, analysis_results, timestamp, binary_name)
        ELSE Failed("ValueError", "Unsupported report format: " \o report_format,
                    analysis_results)

\* self.generate_both_reports(analysis_results) at second t: the document,
\* then the JSON file; what the first wrote stays when the second raises.
generate_both_reports(report_dir, ds, fl, dn, analysis_results, t) ==
    LET timestamp == Stamp(t)
        binary_name == Format(BinaryField(analysis_results, "name", "unknown"))
        docx == DocxReport(report_dir, ds, fl, dn, analysis_results, timestamp, binary_name)
        json == JsonReport(report_dir, ds, fl \cup {docx.paths[1]}, dn, docx.results,
                           timestamp, binary_name)
    IN  IF ~docx.ok THEN docx
        ELSE [json EXCEPT !.paths = docx.paths \o json.paths,
                          !.writes = docx.writes \o json.writes]

\* ReportGenerator(analysis_dir): the report directory and whether it could
\* be made.
ReportGenerator(ds, fl, dn, analysis_dir) ==
    LET report_dir == PathOf(analysis_dir \o "/reports")
        made == EnsureDir(ds, fl, dn, report_dir)
    IN  [ok |-> made.ok, dirs |-> made.dirs, report_dir |-> report_dir]

\* generate_analysis_report(analysis_results, output_dir, report_format)
generate_analysis_report(ds, fl, dn, analysis_results, output_dir, report_format, t) ==
    LET gen == ReportGenerator(ds, fl, dn, output_dir)
        out == IF ~gen.ok THEN Failed("OSError", gen.report_dir, analysis_results)
               ELSE IF report_format = "both"
               THEN generate_both_reports(gen.report_dir, gen.dirs, fl, dn,
                                          analysis_results, t)
               ELSE generate_report(gen.report_dir, gen.dirs, fl, dn, analysis_results,
                                    report_format, t)
    IN  [constructed |-> gen.ok, dirs |-> gen.dirs, out |-> out]

(***************************************************************************)
(* Reports: one report is asked for, through a generator constructed       *)
(* before or through generate_analysis_report.                             *)
(***************************************************************************)
ResultFull ==
    JDict(<<<<"binary", JDict(<<<<"name", JStr("mal.exe")>>,
                                <<"path", JStr("C:\\s\\mal.exe")>>,
                                <<"sha256", JStr("ab12")>>>>)>>,
            <<"static_results",
              JDict(<<<<"Capa", JDict(<<<<"rules", JInt(3)>>,
                                        <<"hits", JList(<<JStr("T1055")>>)>>>>)>>,
                      <<"Yara", JList(<<>>)>>>>)>>,
            <<"dynamic_results", JDict(<<<<"Fakenet", JStr("dns \"evil.test\"")>>>>)>>,
            <<"procmon_results", JDict(<<<<"events", JInt(12)>>,
                                         <<"truncated", JBool(FALSE)>>>>)>>,
            <<"suppressions", JList(<<JStr("TTD")>>)>>,
            <<"status", JStr("Partial")>>>>)

ResultStaticOnly ==
    JDict(<<<<"binary", JDict(<<<<"name", JStr("a.bin")>>>>)>>,
            <<"static_results", JDict(<<<<"Exiftool", JDict(<<<<"size", JInt(-42)>>>>)>>,
                                      <<"Floss", JNull>>>>)>>,
            <<"status", JStr("Complete")>>>>)

ResultDynamicOnly ==
    JDict(<<<<"dynamic_results", JDict(<<<<"ProcDump", JBool(TRUE)>>>>)>>,
            <<"procmon_results", JDict(<<>>)>>,
            <<"suppressions", JList(<<>>)>>>>)

ResultEmpty == JDict(<<>>)

AnalysisResults == {ResultFull, ResultStaticOnly, ResultDynamicOnly, ResultEmpty}

ReportFormats == {"json", "markdown", "docx", "both", "pdf", "JSON"}

OutputDirs == {"out", "/data/run1"}

ReportSnapshots ==
    {[dirs |-> {"/", "."}, files |-> {}, denied |-> {}],
     [dirs |-> {"/", ".", "out", "out/reports"}, files |-> {}, denied |-> {"out/reports"}],
     [dirs |-> {"/", ".", "out", "out/reports"},
      files |-> {"out/reports/mal.exe_20250101_000000.json"}, denied |-> {}],
     [dirs |-> {"/", "."}, files |-> {"out", "/data"}, denied |-> {}]}

InitReport ==
    /\ system = "Linux"
    /\ pathEnv = [set |-> FALSE, value |-> ""]
    /\ \E snap \in ReportSnapshots :
          /\ dirs = snap.dirs
          /\ files = snap.files
          /\ denied = snap.denied
    /\ ftCall = NoCall
    /\ saCall = NoRun
    /\ saPrev = NoRun
    /\ procs = <<>>
    /\ now = 0
    /\ ReportIdle
    /\ GuiIdle

\* What a report call leaves: the call, the files it wrote.
Reported(entry, results, report_format, constructed, out) ==
    /\ rpCall' = [called |-> TRUE, entry |-> entry, results |-> results,
                  format |-> report_format, constructed |-> constructed, out |-> out]
    /\ artifacts' = artifacts \o out.writes
    /\ files' = files \cup {out.paths[i] : i \in 1..Len(out.paths)}

\* generator = ReportGenerator(analysis_dir)
NewGenerator(analysis_dir) ==
    /\ ~generator.some
    /\ ~rpCall.called
    /\ LET gen == ReportGenerator(dirs, files, denied, analysis_dir)
       IN  /\ dirs' = gen.dirs
           /\ generator' = IF gen.ok THEN Some(gen.report_dir) ELSE None
    /\ UNCHANGED <<system, pathEnv, files, denied, ftCall, saCall, saPrev, procs, now,
                   rpCall, artifacts, guiVars>>

\* generator.generate_report(results, report_format)
GenerateReport(results, report_format) ==
    /\ generator.some
    /\ ~rpCall.called
    /\ Reported("generate_report", results, report_format, TRUE,
                generate_report(generator.s, dirs, files, denied, results,
                                report_format, now))
    /\ UNCHANGED <<system, pathEnv, dirs, denied, ftCall, saCall, saPrev, procs, now,
                   generator, guiVars>>

\* generator.generate_both_reports(results)
GenerateBothReports(results) ==
    /\ generator.some
    /\ ~rpCall.called
    /\ Reported("generate_both_reports", results, "both", TRUE,
                generate_both_reports(generator.s, dirs, files, denied, results, now))
    /\ UNCHANGED <<system, pathEnv, dirs, denied, ftCall, saCall, saPrev, procs, now,
                   generator, guiVars>>

\* generate_analysis_report(results, output_dir, report_format)
GenerateAnalysisReport(results, output_dir, report_format) ==
    /\ ~generator.some
    /\ ~rpCall.called
    /\ LET r == generate_analysis_report(dirs, files, denied, results, output_dir,
                                         report_format, now)
       IN  /\ Reported("generate_analysis_report", results, report_format,
                       r.constructed, r.out)
           /\ dirs' = r.dirs
    /\ UNCHANGED <<system, pathEnv, denied, ftCall, saCall, saPrev, procs, now,
                   generator, guiVars>>

NextReport ==
    \/ \E d \in OutputDirs : NewGenerator(d)
    \/ \E results \in AnalysisResults, f \in ReportFormats : GenerateReport(results, f)
    \/ \E results \in AnalysisResults : GenerateBothReports(results)
    \/ \E results \in AnalysisResults, d \in OutputDirs, f \in ReportFormats :
          GenerateAnalysisReport(results, d, f)

SpecReport == InitReport /\ [][NextReport]_vars

(***************************************************************************)
(* Properties of the reports.                                              *)
(***************************************************************************)
\* sub in s
Contains(s, sub) ==
    \E i \in 1..(Len(s) - Len(sub) + 1) : SubSeq(s, i, i + Len(sub) - 1) = sub

EndsWith(s, suffix) ==
    Len(suffix) <= Len(s) /\ SubSeq(s, Len(s) - Len(suffix) + 1, Len(s)) = suffix

\* The formats the entry point called renders.
SupportedFormat ==
    \/ rpCall.format \in {"json", "markdown", "docx"}
    \/ rpCall.format = "both" /\ rpCall.entry # "generate_report"

\* C11: a report asked for in a format that is not supported fails with
\* the unsupported-format error, whose message names the format asked for,
\* and the call writes no report file.
C11_UnsupportedFormatFails ==
    (rpCall.called /\ rpCall.constructed /\ ~SupportedFormat)
        => /\ ~rpCall.out.ok
           /\ rpCall.out.error = "ValueError"
           /\ Contains(rpCall.out.message, "Unsupported")
           /\ EndsWith(rpCall.out.message, rpCall.format)
           /\ rpCall.out.writes = <<>>
           /\ artifacts = <<>>

C11_Witness ==
    /\ rpCall.called
    /\ rpCall.entry = "generate_analysis_report"
    /\ rpCall.format = "pdf"
    /\ rpCall.constructed
    /\ rpCall.out.error = "ValueError"

\* C12: whatever the format and whether the call returns or raises, the
\* analysis-result mapping is after the call what it was before it.
C12_ResultsUnchanged ==
    rpCall.called => rpCall.out.results = rpCall.results

C12_Witness ==
    /\ rpCall.called
    /\ rpCall.format = "both"
    /\ rpCall.out.ok
    /\ Len(rpCall.out.writes) = 2
    /\ rpCall.results = ResultFull

JsonArtifacts == {i \in 1..Len(artifacts) : EndsWith(artifacts[i].path, ".json")}

\* C13: reading a written JSON report back gives, under "analysis_results",
\* the analysis result that was passed in, keys the other renderers do not
\* know included.
C13_JsonRoundTrip ==
    \A i \in JsonArtifacts :
        LET back == Loads(artifacts[i].text)
        IN  /\ back.ok
            /\ back.v.ty = "dict"
            /\ JGet(back.v, "analysis_results", JNull) = rpCall.results

C13_Witness ==
    /\ JsonArtifacts # {}
    /\ rpCall.results = ResultFull
    /\ HasKey(JGet(Loads(artifacts[Len(artifacts)].text).v, "analysis_results",
                   JDict(<<>>)).items, "suppressions")

HumanReadable ==
    {i \in 1..Len(artifacts) :
        EndsWith(artifacts[i].path, ".md") \/ EndsWith(artifacts[i].path, ".docx")}

\* text is part of the report file a
Appears(a, text) ==
    IF Len(a.doc) > 0 THEN \E k \in 1..Len(a.doc) : Contains(a.doc[k].text, text)
    ELSE Contains(a.text, text)

\* Every leaf of value v is written in a.
RECURSIVE LeavesAppear(_, _)
LeavesAppear(a, v) ==
    IF v.ty \in {"dict", "list"}
    THEN \A k \in 1..Len(v.items) :
            LeavesAppear(a, IF v.ty = "dict" THEN v.items[k][2] ELSE v.items[k])
    ELSE Appears(a, IF v.ty = "str" THEN v.s ELSE Dumps(v, 2))

\* Every payload of the section is written in a as json.dumps gives it.
PayloadsAppear(a, section) ==
    \A k \in 1..Len(section.items) : Appears(a, Dumps(section.items[k][2], 2))

LaunchProcmonUnchecked(fl, procmonexe, pml_file, use_pmc, pmc_file) ==
    LET cmdline == "\"" \o procmonexe \o "\" /BackingFile \"" \o pml_file
                   \o "\" /Quiet /Minimized"
    IN  IF use_pmc
        THEN cmdline \o " /LoadConfig \"" \o (IF pmc_file.some THEN pmc_file.s ELSE "None")
                     \o "\""
        ELSE cmdline

\* launch_procmon(procmonexe, pml_file, use_pmc, pmc_file): the command line
\* given to subprocess.Popen
launch_procmon(fl, procmonexe, pml_file, use_pmc, pmc_file) ==
    LET cmdline == "\"" \o procmonexe \o "\" /BackingFile \"" \o pml_file
                   \o "\" /Quiet /Minimized"
    IN  IF use_pmc /\ file_exists(fl, pmc_file)
        THEN cmdline \o " /LoadConfig \"" \o pmc_file.s \o "\""
        ELSE cmdline

ProcmonExe == "C:\\Tools\\Procmon.exe"
PmlFiles == {"C:\\out\\run.pml"}
PmcFiles == {None, Some("C:\\cfg\\filter.pmc"), Some("C:\\cfg\\gone.pmc")}

\* procmon_settings of a configuration that enables Procmon
ProcmonSettings(duration, disable_timer) ==
    Mapping(<<<<"enabled", VBool(TRUE)>>, <<"duration", VStr(duration)>>,
              <<"disable_timer", VBool(disable_timer)>>>>)

ProcmonConfigs ==
    {MakeConfig(Absent, Absent, Mapping(<<<<"Procmon", TRUE>>>>),
                [procmon_settings |-> ProcmonSettings(d, t), binary |-> Absent,
                 vm |-> Absent]) :
        d \in {"1", "2"}, t \in BOOLEAN}

InitProcmon ==
    /\ system = "Windows"
    /\ pathEnv = [set |-> FALSE, value |-> ""]
    /\ dirs = {"/", ".", "analysis", "tools", "binary", "utils"}
    /\ files \in {{ProcmonExe}, {ProcmonExe, "C:\\cfg\\filter.pmc"}}
    /\ denied = {}
    /\ ftCall = NoCall
    /\ saCall = NoRun
    /\ saPrev = NoRun
    /\ procs = <<>>
    /\ now = 0
    /\ ReportIdle
    /\ GuiIdle

\* launch_procmon(ProcmonExe, pml_file, use_pmc, pmc_file)
LaunchProcmon(pml_file, use_pmc, pmc_file) ==
    /\ Len(procs) < MaxProcs
    /\ procs' = Append(procs,
                       [cmdline |-> launch_procmon(files, ProcmonExe, pml_file, use_pmc,
                                                   pmc_file),
                        call |-> [procmonexe |-> ProcmonExe, pml_file |-> pml_file,
                                  use_pmc |-> use_pmc, pmc_file |-> pmc_file],
                        started |-> now,
                        state |-> "running"])
    /\ UNCHANGED <<system, pathEnv, files, dirs, denied, ftCall, saCall, saPrev, now,
                   reportVars, guiVars>>

\* One second passes.
Tick ==
    /\ now < MaxTime
    /\ now' = now + 1
    /\ UNCHANGED <<system, pathEnv, files, dirs, denied, ftCall, saCall, saPrev, procs,
                   reportVars, guiVars>>

\* The user ends a running Process Monitor.
ProcExit(i) ==
    /\ procs[i].state = "running"
    /\ procs' = [procs EXCEPT ![i].state = "exited"]
    /\ UNCHANGED <<system, pathEnv, files, dirs, denied, ftCall, saCall, saPrev, now,
                   reportVars, guiVars>>

NextProcmon ==
    \/ \E config \in ProcmonConfigs : StartAnalysis(config)
    \/ \E pml \in PmlFiles, use_pmc \in BOOLEAN, pmc \in PmcFiles :
          LaunchProcmon(pml, use_pmc, pmc)
    \/ Tick
    \/ \E i \in 1..Len(procs) : ProcExit(i)

SpecProcmon == InitProcmon /\ [][NextProcmon]_vars

(***************************************************************************)
(* Properties of launch_procmon.                                           *)
(***************************************************************************)
StartsWith(s, prefix) == Len(prefix) <= Len(s) /\ SubSeq(s, 1, Len(prefix)) = prefix

\* C15: every process launch_procmon started was started with the Procmon
\* executable, /BackingFile naming the capture file, /Quiet and /Minimized,
\* and /LoadConfig naming the saved configuration is on the command line
\* exactly when use_pmc was set and that file exists.
C15_ProcmonCommandLine ==
    \A i \in 1..Len(procs) :
        LET c == procs[i].cmdline
            a == procs[i].call
            load == a.use_pmc /\ a.pmc_file.some /\ a.pmc_file.s \in files
        IN  /\ StartsWith(c, "\"" \o a.procmonexe \o "\" ")
            /\ Contains(c, " /BackingFile \"" \o a.pml_file \o "\"")
            /\ Contains(c, " /Quiet")
            /\ Contains(c, " /Minimized")
            /\ Contains(c, "/LoadConfig") <=> load
            /\ load => EndsWith(c, " /LoadConfig \"" \o a.pmc_file.s \o "\"")

C15_Witness ==
    \E i \in 1..Len(procs) :
        /\ procs[i].call.use_pmc
        /\ procs[i].call.pmc_file.s \in files
        /\ Contains(procs[i].cmdline, "/LoadConfig")

\* int(duration) of a duration written in digits
Seconds(v) == ScanNat(v.s, 1, 0).v.n

\* The configuration run enables Procmon with its timer on.
TimerOn ==
    /\ saCall.called
    /\ saCall.out.kind = "returned"
    /\ saCall.config.procmon_settings.t = "map"
    /\ PyTruthy(Get(saCall.config.procmon_settings.m, "enabled", VNone))
    /\ ~PyTruthy(Get(saCall.config.procmon_settings.m, "disable_timer", VNone))

\* C16 (as stated): with Procmon enabled for d seconds and its timer on, no
\* process launch_procmon started is still running once more than d
\* seconds have passed since its start.
C16_ProcmonStoppedAfterDuration ==
    TimerOn =>
        \A i \in 1..Len(procs) :
            now > procs[i].started + Seconds(Get(saCall.config.procmon_settings.m,
                                                 "duration", VNone))
                => procs[i].state # "running"

(***************************************************************************)
(* gui.py: the overseerUI window                                           *)
(*                                                                         *)
(* ui holds what the widgets show: tools[group][name] and all[group] are   *)
(* the check boxes of the two tool groups and their "Select All" boxes,    *)
(* the other fields are the line edits (strings) and the plain check       *)
(* boxes.  The window of the model has two static and three dynamic tool   *)
(* boxes, kept in the order of the dicts of create_tools_section, where    *)
(* "Procmon" is added last.  QCheckBox.setChecked emits stateChanged only  *)
(* when the state changes, and the connected handler runs before           *)
(* setChecked returns.  The configuration file is [exists, data]: data is   *)
(* what json.load reads from it, a failed reading when its text is not     *)
(* JSON.  What the window writes are dicts of strings and booleans, which  *)
(* json.dump and json.load carry over as they are.                         *)
(***************************************************************************)
\* Qt.Checked and Qt.Unchecked as stateChanged passes them
Checked == 2
Unchecked == 0

\* list(self.static_tools), list(self.dynamic_tools)
Boxes(group) == IF group = "static" THEN <<"Capa", "Yara">> ELSE <<"Fakenet", "TTD", "Procmon">>

Groups == {"static", "dynamic"}

\* Fault variant of handle_procmon_ttd_exclusion: the handler does nothing.
ExclusionOff(u, state, source) == u

RECURSIVE setChecked(_, _, _, _)
RECURSIVE handle_procmon_ttd_exclusion(_, _, _)

\* self.handle_procmon_ttd_exclusion(state, source)
handle_procmon_ttd_exclusion(u, state, source) ==
    IF state = Checked
    THEN IF source = "Procmon" THEN setChecked(u, "dynamic", "TTD", FALSE)
         ELSE IF source = "TTD" THEN setChecked(u, "dynamic", "Procmon", FALSE)
         ELSE u
    ELSE u

\* self.<group>_tools[name].setChecked(checked), the handlers it sets off
\* included
setChecked(u, group, name, checked) ==
    IF u.tools[group][name] = checked THEN u
    ELSE LET changed == [u EXCEPT !.tools[group][name] = checked]
         IN  IF group = "dynamic" /\ name \in {"Procmon", "TTD"}
             THEN handle_procmon_ttd_exclusion(changed,
                                               IF checked THEN Checked ELSE Unchecked, name)
             ELSE changed

\* for tool in tool_dict.values(): tool.setChecked(checked), from the i-th on
RECURSIVE SetEach(_, _, _, _, _)
SetEach(u, group, names, checked, i) ==
    IF i > Len(names) THEN u
    ELSE SetEach(setChecked(u, group, names[i], checked), group, names, checked, i + 1)

\* The order in which a list is walked backwards.
Reversed(q) == [i \in 1..Len(q) |-> q[Len(q) + 1 - i]]

\* Fault variant of toggle_all_tools: the boxes are walked last to first.
ToggleAllBackwards(u, state, group) ==
    SetEach(u, group, Reversed(Boxes(group)), state = Checked, 1)

\* self.toggle_all_tools(state, tool_dict)
toggle_all_tools(u, state, group) == SetEach(u, group, Boxes(group), state = Checked, 1)

\* self.<group>_all.setChecked(checked), the handler it sets off included
SetSelectAll(u, group, checked) ==
    IF u.all[group] = checked THEN u
    ELSE toggle_all_tools([u EXCEPT !.all[group] = checked],
                          IF checked THEN Checked ELSE Unchecked, group)

\* The widgets as init_ui creates them.
InitUi ==
    [tools |-> [g \in Groups |-> [n \in {Boxes(g)[i] : i \in 1..Len(Boxes(g))} |-> FALSE]],
     all |-> [g \in Groups |-> FALSE],
     binary_path |-> "", zip_password |-> "", run_check |-> FALSE, admin_check |-> FALSE,
     username |-> "", password |-> "",
     procmon_duration |-> "60", procmon_disable_timer |-> FALSE]

\* d.get(k, {}) of a dict value d, as the items of the mapping got
Section(d, k) == JGet(d, k, JDict(<<>>)).items

\* for name, checked in section.items(): if name in boxes: setChecked(checked)
RECURSIVE PrefillTools(_, _, _, _)
PrefillTools(u, group, items, i) ==
    IF i > Len(items) THEN u
    ELSE PrefillTools(IF items[i][1] \in DOMAIN u.tools[group]
                      THEN setChecked(u, group, items[i][1], items[i][2].b)
                      ELSE u,
                      group, items, i + 1)

\* self.preconfigure_from_config() when init_ui calls it: config_data is
\* what json.load gave, or a failed reading when it raised
preconfigure_from_config(u, config_data) ==
    IF ~config_data.ok \/ config_data.v.ty # "dict" \/ ~JTruthy(config_data.v) THEN u
    ELSE LET binary == Section(config_data.v, "binary")
             vm == Section(config_data.v, "vm")
             procmon == Section(config_data.v, "procmon_settings")
             text(m, k, old) == IF JTruthy(Get(m, k, JNull)) THEN Get(m, k, JNull).s ELSE old
             u1 == [u EXCEPT
                      !.binary_path = text(binary, "path", @),
                      !.run_check = IF JTruthy(Get(binary, "run", JNull)) THEN TRUE ELSE @,
                      !.admin_check =
                          IF JTruthy(Get(binary, "as_admin", JNull)) THEN TRUE ELSE @,
                      !.zip_password =
                          text(vm, "binary_password", text(binary, "password", @)),
                      !.username = text(vm, "username", @),
                      !.password = text(vm, "password", @)]
             u2 == PrefillTools(u1, "static", Section(config_data.v, "static_tools"), 1)
             u3 == PrefillTools(u2, "dynamic", Section(config_data.v, "dynamic_tools"), 1)
             u4 == IF HasKey(procmon, "enabled")
                   THEN setChecked(u3, "dynamic", "Procmon", Get(procmon, "enabled", JNull).b)
                   ELSE u3
         IN  [u4 EXCEPT
                !.procmon_duration =
                    IF HasKey(procmon, "duration")
                    THEN Format(Get(procmon, "duration", JNull)) ELSE @,
                !.procmon_disable_timer =
                    IF HasKey(procmon, "disable_timer")
                    THEN Get(procmon, "disable_timer", JNull).b ELSE @]

\* for name, cb in boxes.items(): cb.setChecked(section.get(name, False))
RECURSIVE LoadTools(_, _, _, _)
LoadTools(u, group, section, i) ==
    IF i > Len(Boxes(group)) THEN u
    ELSE LoadTools(setChecked(u, group, Boxes(group)[i],
                              Get(section, Boxes(group)[i], JBool(FALSE)).b),
                   group, section, i + 1)

\* self.load_preferences(): the widgets afterwards.  setText raises on a
\* duration that is not a str; the except clause ends the load there.
load_preferences(u, file) ==
    LET config == IF file.exists THEN file.data ELSE ReadFail(1)
    IN  IF ~config.ok \/ config.v.ty # "dict" THEN u
        ELSE LET binary == Section(config.v, "binary")
                 vm == Section(config.v, "vm")
                 procmon == Section(config.v, "procmon_settings")
                 duration == Get(procmon, "duration", JStr("60"))
                 u1 == [u EXCEPT
                          !.run_check = Get(binary, "run", JBool(FALSE)).b,
                          !.admin_check = Get(binary, "as_admin", JBool(FALSE)).b,
                          !.zip_password = Get(binary, "bin_pass", JStr("")).s,
                          !.binary_path = Get(binary, "path", JStr("")).s,
                          !.username = Get(vm, "username", JStr("")).s,
                          !.password = Get(vm, "password", JStr("")).s]
                 u2 == setChecked(u1, "dynamic", "Procmon",
                                  Get(procmon, "enabled", JBool(FALSE)).b)
                 u3 == [u2 EXCEPT !.procmon_disable_timer =
                                      Get(procmon, "disable_timer", JBool(FALSE)).b]
                 u4 == [u3 EXCEPT !.procmon_duration = duration.s]
                 u5 == LoadTools(u4, "static", Section(config.v, "static_tools"), 1)
             IN  IF duration.ty # "str" THEN u3
                 ELSE LoadTools(u5, "dynamic", Section(config.v, "dynamic_tools"), 1)

\* Fault variant of SetItem: an entry that is there already is kept.
SetItemIfAbsent(d, k, v) ==
    IF HasKey(d.items, k) THEN d ELSE JDict(Append(d.items, <<k, v>>))

\* d[k] = v on a dict value
SetItem(d, k, v) ==
    IF HasKey(d.items, k)
    THEN JDict([i \in 1..Len(d.items) |->
                   IF d.items[i][1] = k THEN <<k, v>> ELSE d.items[i]])
    ELSE JDict(Append(d.items, <<k, v>>))

\* {name: cb.isChecked() for name, cb in boxes.items()}
CheckedDict(u, group) ==
    JDict([i \in 1..Len(Boxes(group)) |->
              <<Boxes(group)[i], JBool(u.tools[group][Boxes(group)[i]])>>])

\* self.save_preferences(): the configuration file afterwards.  Whatever is
\* raised on the way is caught and the file is left as it was.
save_preferences(u, file) ==
    LET config == IF file.exists THEN file.data ELSE Read(JDict(<<>>), 1)
    IN  IF ~config.ok \/ config.v.ty # "dict" THEN file
        ELSE LET c1 == SetItem(config.v, "static_tools", CheckedDict(u, "static"))
                 c2 == SetItem(c1, "dynamic_tools", CheckedDict(u, "dynamic"))
                 c3 == SetItem(c2, "procmon_settings",
                               JDict(<<<<"enabled", JBool(u.tools["dynamic"]["Procmon"])>>,
                                       <<"disable_timer", JBool(u.procmon_disable_timer)>>,
                                       <<"duration", JStr(u.procmon_duration)>>>>))
                 c4 == SetItem(c3, "binary",
                               JDict(<<<<"path", JStr(u.binary_path)>>,
                                       <<"run", JBool(u.run_check)>>,
                                       <<"as_admin", JBool(u.admin_check)>>,
                                       <<"bin_pass", JStr(u.zip_password)>>>>))
                 c5 == IF u.username # "" \/ u.password # ""
                       THEN SetItem(c4, "vm", JDict(<<<<"username", JStr(u.username)>>,
                                                      <<"password", JStr(u.password)>>>>))
                       ELSE c4
             IN  [exists |-> TRUE, data |-> Read(c5, 1)]

(***************************************************************************)
(* The window: it is constructed on a configuration file, its user clicks  *)
(* boxes and fills the form, saves the preferences and loads them again.   *)
(***************************************************************************)
\* A configuration file in the layout start_analysis_from_config reads, with
\* both Procmon and TTD enabled and a duration written as a number.
SampleConfig ==
    JDict(<<<<"paths", JDict(<<<<"analysis", JStr("analysis")>>>>)>>,
            <<"static_tools", JDict(<<<<"Capa", JBool(TRUE)>>, <<"Yara", JBool(FALSE)>>>>)>>,
            <<"dynamic_tools", JDict(<<<<"Procmon", JBool(TRUE)>>, <<"TTD", JBool(TRUE)>>,
                                       <<"Fakenet", JBool(FALSE)>>>>)>>,
            <<"procmon_settings", JDict(<<<<"enabled", JBool(TRUE)>>,
                                          <<"duration", JInt(60)>>,
                                          <<"disable_timer", JBool(FALSE)>>>>)>>,
            <<"binary", JDict(<<<<"path", JStr("C:\\s\\mal.exe")>>,
                                <<"run", JBool(TRUE)>>,
                                <<"as_admin", JBool(FALSE)>>,
                                <<"password", JStr("infected")>>>>)>>,
            <<"vm", JDict(<<<<"type", JStr("vmware")>>,
                            <<"path", JStr("C:\\vm\\a.vmx")>>,
                            <<"snapshot", JStr("clean")>>,
                            <<"username", JStr("analyst")>>,
                            <<"password", JStr("pw")>>>>)>>,
            <<"notes", JStr("keep")>>>>)

\* A configuration file as save_preferences leaves it.
SavedConfig ==
    JDict(<<<<"paths", JDict(<<<<"analysis", JStr("analysis")>>>>)>>,
            <<"static_tools", JDict(<<<<"Capa", JBool(FALSE)>>, <<"Yara", JBool(TRUE)>>>>)>>,
            <<"dynamic_tools", JDict(<<<<"Fakenet", JBool(TRUE)>>, <<"TTD", JBool(TRUE)>>,
                                       <<"Procmon", JBool(FALSE)>>>>)>>,
            <<"procmon_settings", JDict(<<<<"enabled", JBool(FALSE)>>,
                                          <<"disable_timer", JBool(TRUE)>>,
                                          <<"duration", JStr("5")>>>>)>>,
            <<"binary", JDict(<<<<"path", JStr("")>>, <<"run", JBool(FALSE)>>,
                                <<"as_admin", JBool(TRUE)>>,
                                <<"bin_pass", JStr("")>>>>)>>,
            <<"vm", JDict(<<<<"username", JStr("old")>>, <<"password", JStr("")>>>>)>>>>)

\* The dynamic_tools entries that enable both Procmon and TTD, in the two
\* orders the keys can have in the file.
BothEnabledTools ==
    {JDict(<<<<"Procmon", JBool(TRUE)>>, <<"TTD", JBool(TRUE)>>>>),
     JDict(<<<<"TTD", JBool(TRUE)>>, <<"Procmon", JBool(TRUE)>>>>)}

\* The procmon_settings entries: enabled true, false or not there, and the
\* duration as a string or as a number.
ProcmonSettingsEntries ==
    {JDict(enabled \o <<<<"duration", duration>>>>) :
        enabled \in {<<>>, <<<<"enabled", JBool(TRUE)>>>>, <<<<"enabled", JBool(FALSE)>>>>},
        duration \in {JStr("60"), JInt(60)}}

\* Configuration files that enable both Procmon and TTD.
BothEnabledConfigs ==
    {JDict(<<<<"dynamic_tools", tools>>, <<"procmon_settings", settings>>>>) :
        tools \in BothEnabledTools, settings \in ProcmonSettingsEntries}

GuiFiles ==
    {[exists |-> FALSE, data |-> ReadFail(1)],
     [exists |-> TRUE, data |-> ReadFail(1)],
     [exists |-> TRUE, data |-> Read(JList(<<>>), 1)],
     [exists |-> TRUE, data |-> Read(JDict(<<>>), 1)],
     [exists |-> TRUE, data |-> Read(SampleConfig, 1)],
     [exists |-> TRUE, data |-> Read(SavedConfig, 1)]}
    \cup {[exists |-> TRUE, data |-> Read(config, 1)] : config \in BothEnabledConfigs}

\* What the user may have typed into the line edits and set on the plain
\* check boxes.
Forms ==
    {[binary_path |-> "", zip_password |-> "", run_check |-> FALSE, admin_check |-> FALSE,
      username |-> "", password |-> "", procmon_duration |-> "60",
      procmon_disable_timer |-> FALSE],
     [binary_path |-> "C:\\s\\mal.exe", zip_password |-> "infected", run_check |-> TRUE,
      admin_check |-> TRUE, username |-> "analyst", password |-> "pw",
      procmon_duration |-> "5", procmon_disable_timer |-> TRUE],
     [binary_path |-> "C:\\s\\mal.exe", zip_password |-> "", run_check |-> TRUE,
      admin_check |-> FALSE, username |-> "", password |-> "", procmon_duration |-> "5",
      procmon_disable_timer |-> FALSE]}

\* The event handled last.  saved is the window as it was when the load
\* began, before is the file as it was when the save began.
Event(kind, group, name, checked, saved, before) ==
    [called |-> TRUE, kind |-> kind, group |-> group, name |-> name, checked |-> checked,
     saved |-> saved, before |-> before]

InitGui ==
    /\ system = "Windows"
    /\ pathEnv = [set |-> FALSE, value |-> ""]
    /\ dirs = {}
    /\ files = {}
    /\ denied = {}
    /\ ftCall = NoCall
    /\ saCall = NoRun
    /\ saPrev = NoRun
    /\ procs = <<>>
    /\ now = 0
    /\ ReportIdle
    /\ ui = NoRun
    /\ cfgFile \in GuiFiles
    /\ guiEv = NoRun

\* Still open to clicks and typing: the preferences have not been saved.
Editing == guiEv.called /\ guiEv.kind \notin {"save", "load"}

\* overseerUI(config_path): json.load, init_ui with the preconfiguration at
\* its end, load_preferences
Construct ==
    /\ ~guiEv.called
    /\ LET config_data == IF cfgFile.exists THEN cfgFile.data ELSE ReadFail(1)
       IN  ui' = load_preferences(preconfigure_from_config(InitUi, config_data), cfgFile)
    /\ guiEv' = Event("construct", "", "", FALSE, NoRun, NoRun)
    /\ UNCHANGED <<system, pathEnv, files, dirs, denied, ftCall, saCall, saPrev, procs, now,
                   reportVars, cfgFile>>

\* The user clicks the box of a tool.
ClickTool(group, name) ==
    /\ Editing
    /\ ui' = setChecked(ui, group, name, ~ui.tools[group][name])
    /\ guiEv' = Event("click", group, name, ~ui.tools[group][name], NoRun, NoRun)
    /\ UNCHANGED <<system, pathEnv, files, dirs, denied, ftCall, saCall, saPrev, procs, now,
                   reportVars, cfgFile>>

\* The user clicks the "Select All" box of a group.
ClickSelectAll(group) ==
    /\ Editing
    /\ ui' = SetSelectAll(ui, group, ~ui.all[group])
    /\ guiEv' = Event("select_all", group, "", ~ui.all[group], NoRun, NoRun)
    /\ UNCHANGED <<system, pathEnv, files, dirs, denied, ftCall, saCall, saPrev, procs, now,
                   reportVars, cfgFile>>

\* The user picks a binary, types into the line edits and sets the plain
\* check boxes.
FillForm(form) ==
    /\ Editing
    /\ ui' = [f \in DOMAIN ui |-> IF f \in DOMAIN form THEN form[f] ELSE ui[f]]
    /\ guiEv' = Event("edit", "", "", FALSE, NoRun, NoRun)
    /\ UNCHANGED <<system, pathEnv, files, dirs, denied, ftCall, saCall, saPrev, procs, now,
                   reportVars, cfgFile>>

\* self.save_preferences()
SavePreferences ==
    /\ Editing
    /\ cfgFile' = save_preferences(ui, cfgFile)
    /\ guiEv' = Event("save", "", "", FALSE, NoRun, cfgFile)
    /\ UNCHANGED <<system, pathEnv, files, dirs, denied, ftCall, saCall, saPrev, procs, now,
                   reportVars, ui>>

\* self.load_preferences(), on the file the save before it left
LoadPreferences ==
    /\ guiEv.called
    /\ guiEv.kind = "save"
    /\ ui' = load_preferences(ui, cfgFile)
    /\ guiEv' = Event("load", "", "", FALSE, ui, guiEv.before)
    /\ UNCHANGED <<system, pathEnv, files, dirs, denied, ftCall, saCall, saPrev, procs, now,
                   reportVars, cfgFile>>

NextGui ==
    \/ Construct
    \/ \E g \in Groups : \E i \in 1..Len(Boxes(g)) : ClickTool(g, Boxes(g)[i])
    \/ \E g \in Groups : ClickSelectAll(g)
    \/ \E form \in Forms : FillForm(form)
    \/ SavePreferences
    \/ LoadPreferences

SpecGui == InitGui /\ [][NextGui]_vars

(***************************************************************************)
(* Properties of the window.                                               *)
(***************************************************************************)
BoxSet(group) == {Boxes(group)[i] : i \in 1..Len(Boxes(group))}

\* C17: once an event has been handled, Procmon and TTD are never both
\* checked, and a click that checks one of the two leaves that one checked
\* and the other one unchecked.
C17_ProcmonTTDExclusive ==
    guiEv.called =>
        /\ ~(ui.tools["dynamic"]["Procmon"] /\ ui.tools["dynamic"]["TTD"])
        /\ (guiEv.kind = "click" /\ guiEv.name \in {"Procmon", "TTD"} /\ guiEv.checked)
              => /\ ui.tools["dynamic"][guiEv.name]
                 /\ ~ui.tools["dynamic"][IF guiEv.name = "TTD" THEN "Procmon" ELSE "TTD"]

C17_Witness ==
    /\ guiEv.called
    /\ guiEv.kind = "click"
    /\ guiEv.name = "TTD"
    /\ guiEv.checked
    /\ ui.tools["dynamic"]["TTD"]
    /\ ui.all["dynamic"]

\* The save wrote the file: it existed with a mapping in it, or not at all.
SaveWrote ==
    /\ guiEv.called
    /\ guiEv.kind = "save"
    /\ ~guiEv.before.exists \/ (guiEv.before.data.ok /\ guiEv.before.data.v.ty = "dict")

\* C18 (as stated): save_preferences leaves every top-level entry other
\* than static_tools, dynamic_tools, procmon_settings, binary and vm as it
\* was, and in vm the fields type, path and snapshot keep their values.
C18_SavePreservesRest ==
    (SaveWrote /\ guiEv.before.exists) =>
        LET old == guiEv.before.data.v
            new == cfgFile.data.v
        IN  /\ \A i \in 1..Len(old.items) :
                  old.items[i][1] \notin {"static_tools", "dynamic_tools",
                                          "procmon_settings", "binary", "vm"}
                      => JGet(new, old.items[i][1], JNull) = old.items[i][2]
            /\ \A f \in {"type", "path", "snapshot"} :
                  HasKey(Section(old, "vm"), f)
                      => /\ HasKey(Section(new, "vm"), f)
                         /\ Get(Section(new, "vm"), f, JNull) = Get(Section(old, "vm"), f, JNull)

\* C19 (as stated): after the "Select All" box of a group has been checked
\* every tool box of the group is checked, and after it has been unchecked
\* every one is unchecked.
C19_SelectAllSetsEveryBox ==
    (guiEv.called /\ guiEv.kind = "select_all") =>
        \A name \in BoxSet(guiEv.group) : ui.tools[guiEv.group][name] = guiEv.checked

\* C19 (amended): after the "Select All" box of a group has been unchecked
\* every tool box of the group is unchecked; after it has been checked
\* every tool box of the group is checked but TTD, which the exclusion
\* with Procmon, set after it, leaves unchecked.
C19_SelectAllButTTD ==
    (guiEv.called /\ guiEv.kind = "select_all") =>
        \A name \in BoxSet(guiEv.group) :
            ui.tools[guiEv.group][name] = (guiEv.checked /\ name # "TTD")

C19_Witness ==
    /\ guiEv.called
    /\ guiEv.kind = "select_all"
    /\ guiEv.group = "dynamic"
    /\ guiEv.checked
    /\ ui.tools["dynamic"]["Procmon"]
    /\ ui.tools["dynamic"]["Fakenet"]
    /\ ~ui.tools["dynamic"]["TTD"]

\* What save_preferences writes of the window: everything but the
\* "Select All" boxes.
Preferences(u) == [f \in DOMAIN u \ {"all"} |-> u[f]]

\* C20 (as stated): after save_preferences and then load_preferences the
\* window shows what it showed when the save began.
C20_SaveLoadRoundTrip ==
    (guiEv.called /\ guiEv.kind = "load") => Preferences(ui) = Preferences(guiEv.saved)

VmFields == {"username", "password"}

\* C20 (amended): after save_preferences and then load_preferences the
\* window shows what it showed when the save began in every field but the
\* VM username and password; these two come back as well when one of them
\* was filled, and when both were empty they show what the vm entry of the
\* file held before the save.
C20_RoundTripButEmptyVm ==
    (guiEv.called /\ guiEv.kind = "load") =>
        LET was == guiEv.saved
            old == guiEv.before
        IN  /\ \A f \in DOMAIN Preferences(ui) \ VmFields : ui[f] = was[f]
            /\ (was.username # "" \/ was.password # "")
                  => \A f \in VmFields : ui[f] = was[f]
            /\ (was.username = "" /\ was.password = "" /\ old.exists /\ old.data.ok
                   /\ old.data.v.ty = "dict")
                  => \A f \in VmFields :
                        ui[f] = Get(Section(old.data.v, "vm"), f, JStr("")).s

C20_Witness ==
    /\ guiEv.called
    /\ guiEv.kind = "load"
    /\ guiEv.before.exists
    /\ guiEv.before.data.ok
    /\ Get(Section(guiEv.before.data.v, "vm"), "username", JStr("")).s = "old"
    /\ guiEv.saved.username = "analyst"
    /\ ui.username = "analyst"
    /\ ui.tools["dynamic"]["TTD"]

\* The file the window was constructed on enables both Procmon and TTD under
\* dynamic_tools.
BothEnabledInFile ==
    /\ cfgFile.exists
    /\ cfgFile.data.ok
    /\ cfgFile.data.v.ty = "dict"
    /\ Get(Section(cfgFile.data.v, "dynamic_tools"), "Procmon", JBool(FALSE)) = JBool(TRUE)
    /\ Get(Section(cfgFile.data.v, "dynamic_tools"), "TTD", JBool(FALSE)) = JBool(TRUE)

\* C21: when the file read at construction enables both Procmon and TTD
\* under dynamic_tools, the constructed window has Procmon checked and TTD
\* unchecked, whatever the order of the two keys, the value of
\* procmon_settings.enabled and the type of procmon_settings.duration.
C21_ConstructKeepsProcmon ==
    (guiEv.called /\ guiEv.kind = "construct" /\ BothEnabledInFile) =>
        /\ ui.tools["dynamic"]["Procmon"]
        /\ ~ui.tools["dynamic"]["TTD"]

====
